---------------------------- MODULE Spec2Model ----------------------------
(***************************************************************************)
(* Model of the in-memory user store with login-attempt lockout            *)
(* (UserStore / UserManager) of module1-IB.                                *)
(*                                                                         *)
(* Strings are modelled as sequences of one-character strings, so that     *)
(* strings.TrimSpace and the character-class counting of ValidatePassword  *)
(* are computed the way the Go code computes them.                         *)
(***************************************************************************)
EXTENDS Integers, Sequences, FiniteSets, TLC

(***************************************************************************)
(* Bounds of the model.                                                    *)
(***************************************************************************)
\* time.Now() yields instants 1..MaxTime; 0 is the zero time.Time{}
MaxTime == 2

\* the two-factor program's clock runs over the 30-second windows
\* 0..MaxWindow after Epoch
MaxWindow == 4

\* the two-factor program's menu actions run at the starts of the windows
\* 0..MaxClock after Epoch
MaxClock == 1

\* the goroutines begin at most MaxRaceCalls AuthenticateUser calls that get
\* past the IsBlocked check
MaxRaceCalls == 4

(***************************************************************************)
(* Program constants.                                                      *)
(***************************************************************************)
\* NewUserManager: maxAttempts: 3
MaxAttempts == 3

\* AuthResult (iota)
AuthSuccess == 0
AuthInvalidCredentials == 1
AuthUserBlocked == 2
AuthUserNotFound == 3

\* generateTOTPCode: timestamp.Unix() / 30; verifyTOTPCode: offset*30 seconds
TimeStep == 30

\* generateTOTPCode: code % 1000000
CodeModulus == 1000000

\* NewTwoFactorAuth: backupCodes: 10
BackupCodesCount == 10

\* generateBackupCode: make([]byte, 8)
BackupCodeLength == 8

\* verifySecondFactor: len(code) == 6
TotpCodeLength == 6

\* registerUser2FA: len(password) < 6
MinPasswordLength == 6

\* bcrypt.DefaultCost
DefaultCost == 10

\* bcrypt cost used by HashPassword
BcryptCost == 12

\* time.Time{}: the zero instant ("never")
ZeroTime == 0

(***************************************************************************)
(* Character sets of the password policy.                                  *)
(***************************************************************************)
uppercaseLetters ==
    {"A","B","C","D","E","F","G","H","I","J","K","L","M",
     "N","O","P","Q","R","S","T","U","V","W","X","Y","Z"}

lowercaseLetters ==
    {"a","b","c","d","e","f","g","h","i","j","k","l","m",
     "n","o","p","q","r","s","t","u","v","w","x","y","z"}

digits == {"0","1","2","3","4","5","6","7","8","9"}

specialChars ==
    {"!","@","#","$","%","^","&","*","(",")","_","+","-","=","[","]",
     "{","}","|",";",":",",",".","<",">","?"}

\* unicode.IsSpace restricted to the characters the inputs use
WhiteSpace == {" ", "\t"}

DefaultPasswordRules ==
    [Length |-> 12,
     RequireUppercase |-> TRUE, RequireLowercase |-> TRUE,
     RequireDigits |-> TRUE, RequireSpecial |-> TRUE,
     MinUppercase |-> 2, MinLowercase |-> 2, MinDigits |-> 2, MinSpecial |-> 2]

(***************************************************************************)
(* Pure functions.                                                         *)
(***************************************************************************)
RECURSIVE TrimLeft(_)
TrimLeft(s) ==
    IF s # <<>> /\ Head(s) \in WhiteSpace THEN TrimLeft(Tail(s)) ELSE s

RECURSIVE TrimRight(_)
TrimRight(s) ==
    IF s # <<>> /\ s[Len(s)] \in WhiteSpace
    THEN TrimRight(SubSeq(s, 1, Len(s) - 1))
    ELSE s

\* TrimSpace that trims nothing
TrimSpace_Identity(s) == s

\* strings.TrimSpace
TrimSpace(s) == TrimRight(TrimLeft(s))

\* number of characters of password that lie in charset
CountIn(password, charset) ==
    Cardinality({i \in 1..Len(password) : password[i] \in charset})

\* ValidatePassword: the list of violated rules, in the order the code appends
ValidationErrors(password, rules) ==
    (IF Len(password) < rules.Length THEN <<"length">> ELSE <<>>)
    \o (IF rules.RequireUppercase
           /\ CountIn(password, uppercaseLetters) < rules.MinUppercase
        THEN <<"uppercase">> ELSE <<>>)
    \o (IF rules.RequireLowercase
           /\ CountIn(password, lowercaseLetters) < rules.MinLowercase
        THEN <<"lowercase">> ELSE <<>>)
    \o (IF rules.RequireDigits
           /\ CountIn(password, digits) < rules.MinDigits
        THEN <<"digits">> ELSE <<>>)
    \o (IF rules.RequireSpecial
           /\ CountIn(password, specialChars) < rules.MinSpecial
        THEN <<"special">> ELSE <<>>)

ValidatePassword(password, rules) == ValidationErrors(password, rules) = <<>>

IsPasswordSecure(password) == ValidatePassword(password, DefaultPasswordRules)

\* bcrypt digest of password: opaque, verifiable only against its password
HashPassword(password) == [alg |-> "bcrypt", cost |-> BcryptCost, of |-> password]

VerifyPassword(password, hashedPassword) == hashedPassword.of = password

(***************************************************************************)
(* Inputs.                                                                 *)
(***************************************************************************)
UsernameInputs ==
    { <<" ">>, <<"a">>, <<" ", "a", "\t">>, <<"b">> }

PwA == <<"A","B","a","b","1","2","!","@","c","d","e","f">>
PwB == <<"X","Y","x","y","8","9","#","$","z","w","v","u">>
PwShort == <<"A","B","a","b","1","2","!","@">>

PasswordInputs == {PwA, PwB, PwShort}

(***************************************************************************)
(* State.                                                                  *)
(***************************************************************************)
VARIABLES
    users,    \* UserStore.users: map[username]*User
    now,      \* the instant time.Now() returns
    lastOp,   \* the most recent call: operation, arguments, result
    streak    \* per username: the results of the current run of
              \* consecutive wrong-password AuthenticateUser calls

vars == <<users, now, lastOp, streak>>

\* The two-factor demo is a separate program (its own main and its own
\* store): its state is declared here and stays idle while the UserManager
\* program runs.
VARIABLES
    totp,     \* the last generateTOTPCode / verifyTOTPCode evaluation
    intBits,  \* the width of Go's int in the build: 32 or 64
    store,    \* User2FAStore.users: map[username]*User2FA
    clock,    \* the Unix time, in seconds, time.Now() returns
    stdin,    \* "open", or "closed" once scanner.Scan() has returned false
    last2FA   \* the most recent menu action of the two-factor program

vars2FA == <<totp, intBits, store, clock, stdin, last2FA>>

\* the two-factor program not running
Idle2FA ==
    /\ totp = [op |-> "none"]
    /\ intBits = 64
    /\ store = << >>
    /\ clock = 0
    /\ stdin = "open"
    /\ last2FA = [op |-> "none"]

\* AuthenticateUser calls made from several goroutines against one
\* UserManager: each goroutine's position in its call, and how many
\* wrong-password calls got past the IsBlocked check and have returned.
VARIABLES
    goroutines,  \* per goroutine: where its call stands, the counter it loaded
    wrongCalls   \* number of returned wrong-password calls that were counted

varsRace == <<goroutines, wrongCalls>>

Goroutines == {"g1", "g2"}

\* a goroutine that is in no call
NoCall == [pc |-> "idle", failed |-> 0]

\* no goroutine calls into the UserManager
IdleRace ==
    /\ goroutines = [g \in Goroutines |-> NoCall]
    /\ wrongCalls = 0

\* The password generator on its own: the call of GeneratePassword or
\* GenerateSecurePassword made, the rules GeneratePassword works with, the
\* length asked of GenerateSecurePassword, the numbers crypto/rand hands
\* out, and what the call returned.
VARIABLES generated

\* no password has been generated
NoGeneration ==
    [op |-> "none", rules |-> DefaultPasswordRules, length |-> 0,
     reader |-> [mul |-> 0, add |-> 0, failAt |-> 0],
     password |-> << >>, err |-> "nil"]

IdleGenerator == generated = NoGeneration

\* s.users[username] exists
UserExists(username) == username \in DOMAIN users

\* SaveUser that stores the record in a map of its own
SaveUser_NewMap(user) == [k \in {user.Username} |-> user]

\* s.users[user.Username] = user
SaveUser(user) == [k \in DOMAIN users \cup {user.Username} |->
                      IF k = user.Username THEN user ELSE users[k]]

\* streak[n]: the results of the wrong-password AuthenticateUser calls for n
\* since the last successful RegisterUser, AuthenticateUser or ChangePassword
\* for n; clean records whether the run began at FailedAttempts = 0, not blocked
NoStreak == [clean |-> FALSE, results |-> <<>>]

\* only the first StreakCap results of a run are recorded
StreakCap == MaxAttempts

Extend(s, user, result) ==
    [clean   |-> IF s.results = <<>>
                 THEN user.FailedAttempts = 0 /\ ~user.IsBlocked
                 ELSE s.clean,
     results |-> IF Len(s.results) < StreakCap
                 THEN Append(s.results, result)
                 ELSE s.results]

\* the record of a call: the operation, the trimmed username, the result
Call(op, name, result) == [op |-> op, name |-> name, result |-> result]

\* what a successful ChangePassword did: the new password, what it replaced
ChangeCall(name, newPassword, user) ==
    [op |-> "ChangePassword", name |-> name, result |-> "ok", pw |-> newPassword,
     prevHash |-> user.HashedPassword, prevBlocked |-> user.IsBlocked]

\* what a successful RegisterUser did: the password it registered
RegisterCall(name, password) ==
    [op |-> "RegisterUser", name |-> name, result |-> "ok", pw |-> password]

\* the successful ChangePassword or RegisterUser for name, when it was the
\* call just before
Prior(name) ==
    IF /\ lastOp.op \in {"ChangePassword", "RegisterUser"}
       /\ lastOp.name = name
       /\ lastOp.result = "ok"
    THEN <<lastOp>> ELSE <<>>

\* an AuthenticateUser call also records the password that was supplied and
\* the successful ChangePassword or RegisterUser it directly follows, if any
AuthCall(name, password, result) ==
    [op |-> "AuthenticateUser", name |-> name, pw |-> password, result |-> result,
     prior |-> Prior(name)]

Init ==
    /\ users = << >>
    /\ now = 1
    /\ lastOp = Call("none", <<>>, "none")
    /\ streak = [n \in {TrimSpace(u) : u \in UsernameInputs} |-> NoStreak]
    /\ Idle2FA
    /\ IdleRace
    /\ IdleGenerator

\* time.Now(): some instant not before the last one read
Instants == now..MaxTime

(***************************************************************************)
(* UserManager.RegisterUser.  HashPassword either fails (bcrypt returns an *)
(* error) or yields the digest.                                            *)
(***************************************************************************)
\* NewUser that stamps LastLoginAt with the creation instant
NewUser_LoginStamped(username, password, t) ==
    [Username       |-> username,
     HashedPassword |-> HashPassword(password),
     FailedAttempts |-> 0,
     IsBlocked      |-> FALSE,
     CreatedAt      |-> t,
     LastLoginAt    |-> t,
     BlockedAt      |-> ZeroTime]

\* the User literal of RegisterUser
NewUser(username, password, t) ==
    [Username       |-> username,
     HashedPassword |-> HashPassword(password),
     FailedAttempts |-> 0,
     IsBlocked      |-> FALSE,
     CreatedAt      |-> t,
     LastLoginAt    |-> ZeroTime,
     BlockedAt      |-> ZeroTime]

\* RegisterUser without the UserExists check: a second registration overwrites
RegisterUser_Overwrite(usernameArg, password) ==
    LET username == TrimSpace(usernameArg) IN
    IF username = <<>> THEN
        /\ lastOp' = Call("RegisterUser", username, "errEmptyUsername")
        /\ UNCHANGED <<users, now, streak>>
    ELSE IF ~IsPasswordSecure(password) THEN
        /\ lastOp' = Call("RegisterUser", username, "errWeakPassword")
        /\ UNCHANGED <<users, now, streak>>
    ELSE
        \/ /\ lastOp' = Call("RegisterUser", username, "errHash")
           /\ UNCHANGED <<users, now, streak>>
        \/ \E t \in Instants :
              /\ now' = t
              /\ users' = SaveUser(NewUser(username, password, t))
              /\ streak' = [streak EXCEPT ![username] = NoStreak]
              /\ lastOp' = RegisterCall(username, password)

RegisterUser(usernameArg, password) ==
    LET username == TrimSpace(usernameArg) IN
    IF username = <<>> THEN
        /\ lastOp' = Call("RegisterUser", username, "errEmptyUsername")
        /\ UNCHANGED <<users, now, streak>>
    ELSE IF UserExists(username) THEN
        /\ lastOp' = Call("RegisterUser", username, "errUserExists")
        /\ UNCHANGED <<users, now, streak>>
    ELSE IF ~IsPasswordSecure(password) THEN
        /\ lastOp' = Call("RegisterUser", username, "errWeakPassword")
        /\ UNCHANGED <<users, now, streak>>
    ELSE
        \/ /\ lastOp' = Call("RegisterUser", username, "errHash")
           /\ UNCHANGED <<users, now, streak>>
        \/ \E t \in Instants :
              /\ now' = t
              /\ users' = SaveUser(NewUser(username, password, t))
              /\ streak' = [streak EXCEPT ![username] = NoStreak]
              /\ lastOp' = RegisterCall(username, password)

(***************************************************************************)
(* UserManager.AuthenticateUser                                            *)
(***************************************************************************)
\* LoginSucceeded without the LastLoginAt assignment
LoginSucceeded_NoStamp(user, t) ==
    [user EXCEPT !.FailedAttempts = 0]

\* LoginSucceeded without the FailedAttempts assignment
LoginSucceeded_KeepCounter(user, t) ==
    [user EXCEPT !.LastLoginAt = t]

\* the correct-password branch: reset the counter, stamp the login
LoginSucceeded(user, t) ==
    [user EXCEPT !.FailedAttempts = 0, !.LastLoginAt = t]

\* CountFailure with > for >=: the block comes one attempt late
CountFailure_LateBlock(user, t) ==
    LET failed == user.FailedAttempts + 1 IN
    IF failed > MaxAttempts
    THEN [user EXCEPT !.FailedAttempts = failed, !.IsBlocked = TRUE, !.BlockedAt = t]
    ELSE [user EXCEPT !.FailedAttempts = failed]

\* CountFailure without the BlockedAt assignment
CountFailure_NoStamp(user, t) ==
    LET failed == user.FailedAttempts + 1 IN
    IF failed >= MaxAttempts
    THEN [user EXCEPT !.FailedAttempts = failed, !.IsBlocked = TRUE]
    ELSE [user EXCEPT !.FailedAttempts = failed]

\* the wrong-password branch: count the attempt, block at the threshold
CountFailure(user, t) ==
    LET failed == user.FailedAttempts + 1 IN
    IF failed >= MaxAttempts
    THEN [user EXCEPT !.FailedAttempts = failed, !.IsBlocked = TRUE, !.BlockedAt = t]
    ELSE [user EXCEPT !.FailedAttempts = failed]

\* FailureResult that never reports the block it has just set
FailureResult_AlwaysInvalid(user) == AuthInvalidCredentials

\* the result of the wrong-password branch, decided after the update
FailureResult(user) ==
    IF user.IsBlocked THEN AuthUserBlocked ELSE AuthInvalidCredentials

\* AuthenticateUser that counts an attempt for an unknown username by
\* creating a record for it
AuthenticateUser_CountsUnknown(usernameArg, password) ==
    LET username == TrimSpace(usernameArg) IN
    IF ~UserExists(username) THEN
        /\ lastOp' = AuthCall(username, password, AuthUserNotFound)
        /\ users' = SaveUser([Username       |-> username,
                              HashedPassword |-> HashPassword(<<>>),
                              FailedAttempts |-> 1,
                              IsBlocked      |-> FALSE,
                              CreatedAt      |-> ZeroTime,
                              LastLoginAt    |-> ZeroTime,
                              BlockedAt      |-> ZeroTime])
        /\ UNCHANGED <<now, streak>>
    ELSE LET user == users[username] IN
    IF user.IsBlocked THEN
        /\ lastOp' = AuthCall(username, password, AuthUserBlocked)
        /\ streak' = [streak EXCEPT ![username] =
                         IF VerifyPassword(password, user.HashedPassword)
                         THEN @
                         ELSE Extend(@, user, AuthUserBlocked)]
        /\ UNCHANGED <<users, now>>
    ELSE IF VerifyPassword(password, user.HashedPassword) THEN
        \E t \in Instants :
            /\ now' = t
            /\ users' = SaveUser(LoginSucceeded(user, t))
            /\ streak' = [streak EXCEPT ![username] = NoStreak]
            /\ lastOp' = AuthCall(username, password, AuthSuccess)
    ELSE
        \E t \in IF CountFailure(user, now).IsBlocked THEN Instants ELSE {now} :
            LET after  == CountFailure(user, t)
                result == FailureResult(after)
            IN  /\ now' = t
                /\ users' = SaveUser(after)
                /\ streak' = [streak EXCEPT ![username] = Extend(@, user, result)]
                /\ lastOp' = AuthCall(username, password, result)

\* AuthenticateUser without the IsBlocked check before the password check
AuthenticateUser_NoBlockedCheck(usernameArg, password) ==
    LET username == TrimSpace(usernameArg) IN
    IF ~UserExists(username) THEN
        /\ lastOp' = AuthCall(username, password, AuthUserNotFound)
        /\ UNCHANGED <<users, now, streak>>
    ELSE LET user == users[username] IN
    IF VerifyPassword(password, user.HashedPassword) THEN
        \E t \in Instants :
            /\ now' = t
            /\ users' = SaveUser(LoginSucceeded(user, t))
            /\ streak' = [streak EXCEPT ![username] = NoStreak]
            /\ lastOp' = AuthCall(username, password, AuthSuccess)
    ELSE
        \E t \in IF CountFailure(user, now).IsBlocked THEN Instants ELSE {now} :
            LET after  == CountFailure(user, t)
                result == FailureResult(after)
            IN  /\ now' = t
                /\ users' = SaveUser(after)
                /\ streak' = [streak EXCEPT ![username] = Extend(@, user, result)]
                /\ lastOp' = AuthCall(username, password, result)

AuthenticateUser(usernameArg, password) ==
    LET username == TrimSpace(usernameArg) IN
    IF ~UserExists(username) THEN
        /\ lastOp' = AuthCall(username, password, AuthUserNotFound)
        /\ UNCHANGED <<users, now, streak>>
    ELSE LET user == users[username] IN
    IF user.IsBlocked THEN
        /\ lastOp' = AuthCall(username, password, AuthUserBlocked)
        /\ streak' = [streak EXCEPT ![username] =
                         IF VerifyPassword(password, user.HashedPassword)
                         THEN @
                         ELSE Extend(@, user, AuthUserBlocked)]
        /\ UNCHANGED <<users, now>>
    ELSE IF VerifyPassword(password, user.HashedPassword) THEN
        \E t \in Instants :
            /\ now' = t
            /\ users' = SaveUser(LoginSucceeded(user, t))
            /\ streak' = [streak EXCEPT ![username] = NoStreak]
            /\ lastOp' = AuthCall(username, password, AuthSuccess)
    ELSE
        \* time.Now() is read only when the account becomes blocked
        \E t \in IF CountFailure(user, now).IsBlocked THEN Instants ELSE {now} :
            LET after  == CountFailure(user, t)
                result == FailureResult(after)
            IN  /\ now' = t
                /\ users' = SaveUser(after)
                /\ streak' = [streak EXCEPT ![username] = Extend(@, user, result)]
                /\ lastOp' = AuthCall(username, password, result)

(***************************************************************************)
(* UserManager.ChangePassword                                              *)
(***************************************************************************)
\* Unblock without the BlockedAt assignment
Unblock_KeepStamp(user, newPassword) ==
    [user EXCEPT !.HashedPassword = HashPassword(newPassword),
                 !.FailedAttempts = 0,
                 !.IsBlocked      = FALSE]

\* Unblock without the HashedPassword assignment
Unblock_KeepHash(user, newPassword) ==
    [user EXCEPT !.FailedAttempts = 0,
                 !.IsBlocked      = FALSE,
                 !.BlockedAt      = ZeroTime]

\* Unblock without the FailedAttempts assignment
Unblock_KeepCounter(user, newPassword) ==
    [user EXCEPT !.HashedPassword = HashPassword(newPassword),
                 !.IsBlocked      = FALSE,
                 !.BlockedAt      = ZeroTime]

\* the update of a successful ChangePassword: new digest, account unblocked
Unblock(user, newPassword) ==
    [user EXCEPT !.HashedPassword = HashPassword(newPassword),
                 !.FailedAttempts = 0,
                 !.IsBlocked      = FALSE,
                 !.BlockedAt      = ZeroTime]

\* ChangePassword that unblocks the account before it validates the password
ChangePassword_UnblockFirst(usernameArg, newPassword) ==
    LET username == TrimSpace(usernameArg) IN
    IF ~UserExists(username) THEN
        /\ lastOp' = Call("ChangePassword", username, "errUserNotFound")
        /\ UNCHANGED <<users, now, streak>>
    ELSE IF ~IsPasswordSecure(newPassword) THEN
        /\ lastOp' = Call("ChangePassword", username, "errWeakPassword")
        /\ users' = SaveUser([users[username] EXCEPT !.FailedAttempts = 0,
                                                     !.IsBlocked      = FALSE,
                                                     !.BlockedAt      = ZeroTime])
        /\ streak' = [streak EXCEPT ![username] = NoStreak]
        /\ UNCHANGED now
    ELSE
        \/ /\ lastOp' = Call("ChangePassword", username, "errHash")
           /\ UNCHANGED <<users, now, streak>>
        \/ /\ users' = SaveUser(Unblock(users[username], newPassword))
           /\ streak' = [streak EXCEPT ![username] = NoStreak]
           /\ lastOp' = ChangeCall(username, newPassword, users[username])
           /\ UNCHANGED now

ChangePassword(usernameArg, newPassword) ==
    LET username == TrimSpace(usernameArg) IN
    IF ~UserExists(username) THEN
        /\ lastOp' = Call("ChangePassword", username, "errUserNotFound")
        /\ UNCHANGED <<users, now, streak>>
    ELSE IF ~IsPasswordSecure(newPassword) THEN
        /\ lastOp' = Call("ChangePassword", username, "errWeakPassword")
        /\ UNCHANGED <<users, now, streak>>
    ELSE
        \/ /\ lastOp' = Call("ChangePassword", username, "errHash")
           /\ UNCHANGED <<users, now, streak>>
        \/ /\ users' = SaveUser(Unblock(users[username], newPassword))
           /\ streak' = [streak EXCEPT ![username] = NoStreak]
           /\ lastOp' = ChangeCall(username, newPassword, users[username])
           /\ UNCHANGED now

(***************************************************************************)
(* UserManager.GetUserStatus / GetAllUsersStatus: reports, no mutation     *)
(***************************************************************************)
\* the lines of the report that depend on the record; <<>> is a line that
\* carries no value ("never", no attempts line)
StatusReport(user) ==
    [lastLogin |-> IF user.LastLoginAt # ZeroTime THEN <<user.LastLoginAt>> ELSE <<>>,
     status    |-> IF user.IsBlocked THEN "blocked" ELSE "active",
     attempts  |-> IF ~user.IsBlocked /\ user.FailedAttempts > 0
                   THEN <<user.FailedAttempts>> ELSE <<>>]

GetUserStatus(usernameArg) ==
    LET username == TrimSpace(usernameArg) IN
    /\ lastOp' = Call("GetUserStatus", username,
                      IF UserExists(username) THEN StatusReport(users[username])
                      ELSE "errUserNotFound")
    /\ UNCHANGED <<users, now, streak>>

GetAllUsersStatus ==
    /\ lastOp' = Call("GetAllUsersStatus", <<>>, Cardinality(DOMAIN users))
    /\ UNCHANGED <<users, now, streak>>

(***************************************************************************)
(* The menu loop: any operation, with any input, in any order.             *)
(***************************************************************************)
Next ==
    \/ /\ \E u \in UsernameInputs, p \in PasswordInputs : RegisterUser(u, p)
       /\ UNCHANGED <<vars2FA, varsRace, generated>>
    \/ /\ \E u \in UsernameInputs, p \in PasswordInputs : AuthenticateUser(u, p)
       /\ UNCHANGED <<vars2FA, varsRace, generated>>
    \/ /\ \E u \in UsernameInputs, p \in PasswordInputs : ChangePassword(u, p)
       /\ UNCHANGED <<vars2FA, varsRace, generated>>
    \/ /\ \E u \in UsernameInputs : GetUserStatus(u)
       /\ UNCHANGED <<vars2FA, varsRace, generated>>
    \/ /\ GetAllUsersStatus
       /\ UNCHANGED <<vars2FA, varsRace, generated>>

Spec == Init /\ [][Next]_vars

(***************************************************************************)
(* Properties.                                                             *)
(***************************************************************************)
Registered == DOMAIN users

\* the call just made was op for the username n
Did(op, n) == lastOp.op = op /\ lastOp.name = n

\* C1: from FailedAttempts = 0 on a non-blocked account, MaxAttempts
\* consecutive wrong-password AuthenticateUser calls leave the account
\* blocked, and MaxAttempts - 1 such calls leave it not blocked.
C1_BlockedAtMaxAttempts ==
    \A n \in Registered :
        streak[n].clean =>
            /\ Len(streak[n].results) = MaxAttempts => users[n].IsBlocked
            /\ Len(streak[n].results) = MaxAttempts - 1 => ~users[n].IsBlocked

\* the third wrong password in a row has just blocked an account
C1_Witness ==
    \E n \in Registered :
        /\ streak[n].clean
        /\ Len(streak[n].results) = MaxAttempts
        /\ users[n].IsBlocked
        /\ users[n].FailedAttempts = MaxAttempts

\* C2: AuthenticateUser on a blocked account returns AuthUserBlocked for a
\* correct and for a wrong password alike, and changes no field of any user.
C2_BlockedIsRefused ==
    [][ (/\ lastOp'.op = "AuthenticateUser"
         /\ lastOp'.name \in Registered
         /\ users[lastOp'.name].IsBlocked)
        => (lastOp'.result = AuthUserBlocked /\ users' = users) ]_vars

\* a blocked account was given its correct password and refused
C2_Witness ==
    /\ lastOp.op = "AuthenticateUser"
    /\ lastOp.name \in Registered
    /\ users[lastOp.name].IsBlocked
    /\ VerifyPassword(lastOp.pw, users[lastOp.name].HashedPassword)
    /\ lastOp.result = AuthUserBlocked
    /\ users[lastOp.name].FailedAttempts = MaxAttempts

\* C3: a blocked account stays in the store and stays blocked through every
\* call except a successful ChangePassword for its username.
C3_OnlyChangePasswordUnblocks ==
    [][ \A n \in Registered :
            users[n].IsBlocked =>
                /\ n \in DOMAIN users'
                /\ ~users'[n].IsBlocked =>
                       (/\ lastOp'.op = "ChangePassword"
                        /\ lastOp'.name = n
                        /\ lastOp'.result = "ok") ]_vars

\* a blocked account has just survived an attempt to register it again
C3_Witness ==
    /\ lastOp.op = "RegisterUser"
    /\ lastOp.name \in Registered
    /\ lastOp.result = "errUserExists"
    /\ users[lastOp.name].IsBlocked

\* C4: a successful ChangePassword on a blocked account leaves IsBlocked
\* false, FailedAttempts 0 and BlockedAt the zero time.
C4_ChangePasswordClearsBlock ==
    [][ (/\ lastOp'.op = "ChangePassword"
         /\ lastOp'.result = "ok"
         /\ lastOp'.name \in Registered
         /\ users[lastOp'.name].IsBlocked)
        => (/\ ~users'[lastOp'.name].IsBlocked
            /\ users'[lastOp'.name].FailedAttempts = 0
            /\ users'[lastOp'.name].BlockedAt = ZeroTime) ]_vars

\* a blocked account has just had its password changed
C4_Witness ==
    /\ lastOp.op = "ChangePassword"
    /\ lastOp.result = "ok"
    /\ lastOp.prevBlocked
    /\ ~users[lastOp.name].IsBlocked
    /\ users[lastOp.name].BlockedAt = ZeroTime

\* C5: in every reachable state a blocked user has FailedAttempts >=
\* MaxAttempts and a BlockedAt that is set.
C5_BlockedImpliesThreshold ==
    \A n \in Registered :
        users[n].IsBlocked =>
            /\ users[n].FailedAttempts >= MaxAttempts
            /\ users[n].BlockedAt # ZeroTime

\* some account is blocked
C5_Witness ==
    \E n \in Registered : users[n].IsBlocked /\ users[n].BlockedAt = now

\* C6: a user's FailedAttempts grows only by 1 and only in an
\* AuthenticateUser call with a wrong password on a non-blocked account; it
\* shrinks only to 0 and only in a successful AuthenticateUser or a
\* successful ChangePassword for that user.
C6_CounterMoves ==
    [][ \A n \in Registered :
            LET before == users[n].FailedAttempts
                after  == users'[n].FailedAttempts
            IN  /\ after > before =>
                       /\ after = before + 1
                       /\ lastOp'.op = "AuthenticateUser"
                       /\ lastOp'.name = n
                       /\ ~users[n].IsBlocked
                       /\ ~VerifyPassword(lastOp'.pw, users[n].HashedPassword)
                /\ after < before =>
                       /\ after = 0
                       /\ lastOp'.name = n
                       /\ \/ /\ lastOp'.op = "AuthenticateUser"
                             /\ lastOp'.result = AuthSuccess
                          \/ /\ lastOp'.op = "ChangePassword"
                             /\ lastOp'.result = "ok" ]_vars

\* a wrong password has just been counted against a non-blocked account
C6_Witness ==
    /\ lastOp.op = "AuthenticateUser"
    /\ lastOp.name \in Registered
    /\ lastOp.result = AuthInvalidCredentials
    /\ ~VerifyPassword(lastOp.pw, users[lastOp.name].HashedPassword)
    /\ users[lastOp.name].FailedAttempts = MaxAttempts - 1

\* C7: in a run of consecutive wrong-password calls that starts at
\* FailedAttempts = 0, call k returns AuthInvalidCredentials for
\* k < MaxAttempts and AuthUserBlocked for k = MaxAttempts.
C7_ResultSequence ==
    \A n \in Registered :
        streak[n].clean =>
            \A k \in 1..Len(streak[n].results) :
                /\ k < MaxAttempts => streak[n].results[k] = AuthInvalidCredentials
                /\ k = MaxAttempts => streak[n].results[k] = AuthUserBlocked

\* the call that crossed the threshold has just reported the block
C7_Witness ==
    /\ lastOp.op = "AuthenticateUser"
    /\ lastOp.name \in Registered
    /\ lastOp.result = AuthUserBlocked
    /\ streak[lastOp.name].clean
    /\ streak[lastOp.name].results =
           [k \in 1..MaxAttempts |->
               IF k < MaxAttempts THEN AuthInvalidCredentials ELSE AuthUserBlocked]
    /\ users[lastOp.name].BlockedAt = now

\* C8: AuthenticateUser with the correct password on a non-blocked account
\* returns AuthSuccess, sets FailedAttempts to 0 and LastLoginAt to the
\* current instant; a new user has LastLoginAt zero, and no other step
\* changes a user's LastLoginAt.
C8_LastLoginOnlyOnSuccess ==
    [][ /\ (/\ lastOp'.op = "AuthenticateUser"
            /\ lastOp'.name \in Registered
            /\ ~users[lastOp'.name].IsBlocked
            /\ VerifyPassword(lastOp'.pw, users[lastOp'.name].HashedPassword))
           => (/\ lastOp'.result = AuthSuccess
               /\ users'[lastOp'.name].FailedAttempts = 0
               /\ users'[lastOp'.name].LastLoginAt = now'
               /\ users'[lastOp'.name].LastLoginAt # ZeroTime)
        /\ \A n \in DOMAIN users' \ Registered :
               users'[n].LastLoginAt = ZeroTime
        /\ \A n \in Registered :
               users'[n].LastLoginAt # users[n].LastLoginAt =>
                   (/\ lastOp'.op = "AuthenticateUser"
                    /\ lastOp'.name = n
                    /\ lastOp'.result = AuthSuccess) ]_vars

\* a user has just logged in while another has never done so
C8_Witness ==
    /\ lastOp.op = "AuthenticateUser"
    /\ lastOp.name \in Registered
    /\ lastOp.result = AuthSuccess
    /\ users[lastOp.name].LastLoginAt = now
    /\ users[lastOp.name].LastLoginAt > users[lastOp.name].CreatedAt
    /\ \E n \in Registered : users[n].LastLoginAt = ZeroTime

\* the AuthenticateUser call just made directly followed a successful
\* ChangePassword on the same, then blocked, account
AfterRecovery ==
    /\ lastOp.op = "AuthenticateUser"
    /\ lastOp.prior # <<>>
    /\ lastOp.prior[1].op = "ChangePassword"
    /\ lastOp.prior[1].prevBlocked

\* C9 as stated: after a blocked account's ChangePassword(username,
\* newPassword) succeeded, the next AuthenticateUser returns AuthSuccess for
\* newPassword and counts a wrong attempt for the previous password.
C9_AsStated ==
    AfterRecovery =>
        /\ lastOp.pw = lastOp.prior[1].pw => lastOp.result = AuthSuccess
        /\ VerifyPassword(lastOp.pw, lastOp.prior[1].prevHash) =>
               /\ lastOp.result = AuthInvalidCredentials
               /\ users[lastOp.name].FailedAttempts = 1

\* C9: after a blocked account's ChangePassword(username, newPassword)
\* succeeded, the next AuthenticateUser returns AuthSuccess for newPassword,
\* and counts a wrong attempt for the previous password when that password
\* differs from newPassword.
C9_RecoveryLogin ==
    AfterRecovery =>
        /\ lastOp.pw = lastOp.prior[1].pw => lastOp.result = AuthSuccess
        /\ (/\ VerifyPassword(lastOp.pw, lastOp.prior[1].prevHash)
            /\ lastOp.pw # lastOp.prior[1].pw) =>
               /\ lastOp.result = AuthInvalidCredentials
               /\ users[lastOp.name].FailedAttempts = 1

\* after the recovery the old password was tried and counted as wrong
C9_Witness ==
    /\ AfterRecovery
    /\ VerifyPassword(lastOp.pw, lastOp.prior[1].prevHash)
    /\ lastOp.pw # lastOp.prior[1].pw
    /\ lastOp.result = AuthInvalidCredentials

\* C10: RegisterUser for a username already in the store returns the
\* duplicate-user error and changes no record, and every record is stored
\* under its own Username.
C10_DuplicateRegistration ==
    /\ [][ (lastOp'.op = "RegisterUser" /\ lastOp'.name \in Registered)
           => (lastOp'.result = "errUserExists" /\ users' = users) ]_vars
    /\ [](\A n \in Registered : users[n].Username = n)

\* registering again an account with failed attempts on record was refused
C10_Witness ==
    /\ lastOp.op = "RegisterUser"
    /\ lastOp.name \in Registered
    /\ lastOp.result = "errUserExists"
    /\ users[lastOp.name].FailedAttempts = MaxAttempts - 1
    /\ users[lastOp.name].LastLoginAt # ZeroTime

\* C11: a successful RegisterUser stores a new user with FailedAttempts 0,
\* IsBlocked false, LastLoginAt and BlockedAt zero, and an AuthenticateUser
\* with the registered password that directly follows it returns AuthSuccess
\* and leaves FailedAttempts at 0.
C11_FreshUserLogsIn ==
    [][ /\ (lastOp'.op = "RegisterUser" /\ lastOp'.result = "ok") =>
               /\ lastOp'.name \notin Registered
               /\ lastOp'.name \in DOMAIN users'
               /\ users'[lastOp'.name].FailedAttempts = 0
               /\ ~users'[lastOp'.name].IsBlocked
               /\ users'[lastOp'.name].LastLoginAt = ZeroTime
               /\ users'[lastOp'.name].BlockedAt = ZeroTime
               /\ users'[lastOp'.name].Username = lastOp'.name
        /\ (/\ lastOp.op = "RegisterUser"
            /\ lastOp.result = "ok"
            /\ lastOp'.op = "AuthenticateUser"
            /\ lastOp'.name = lastOp.name
            /\ lastOp'.pw = lastOp.pw) =>
               /\ lastOp'.result = AuthSuccess
               /\ users'[lastOp'.name].FailedAttempts = 0 ]_vars

\* a user has just logged in with the password registered one call earlier
C11_Witness ==
    /\ lastOp.op = "AuthenticateUser"
    /\ lastOp.prior # <<>>
    /\ lastOp.prior[1].op = "RegisterUser"
    /\ lastOp.pw = lastOp.prior[1].pw
    /\ lastOp.result = AuthSuccess
    /\ users[lastOp.name].FailedAttempts = 0
    /\ users[lastOp.name].LastLoginAt # ZeroTime

\* C12: a ChangePassword that fails (unknown username, password rejected by
\* the policy, hashing error) changes nothing in the store; a blocked account
\* stays blocked with its old credential and counter.
C12_FailedChangeIsInert ==
    [][ (lastOp'.op = "ChangePassword" /\ lastOp'.result # "ok")
        => users' = users ]_vars

\* a weak new password has just been refused for a blocked account
C12_Witness ==
    /\ lastOp.op = "ChangePassword"
    /\ lastOp.result = "errWeakPassword"
    /\ lastOp.name \in Registered
    /\ users[lastOp.name].IsBlocked
    /\ users[lastOp.name].FailedAttempts = MaxAttempts

\* C13: AuthenticateUser for a username that is not in the store returns
\* AuthUserNotFound and changes the store in no way.
C13_UnknownUserIsInert ==
    [][ (lastOp'.op = "AuthenticateUser" /\ lastOp'.name \notin Registered)
        => (lastOp'.result = AuthUserNotFound /\ users' = users) ]_vars

\* an unknown username was refused while another account had failures on record
C13_Witness ==
    /\ lastOp.op = "AuthenticateUser"
    /\ lastOp.name \notin Registered
    /\ lastOp.name # <<>>
    /\ lastOp.result = AuthUserNotFound
    /\ \E n \in Registered : users[n].FailedAttempts > 0

\* a username as typed: it is empty once surrounding white space is removed
Blank(username) == \A i \in 1..Len(username) : username[i] \in WhiteSpace

\* C14: RegisterUser with a username that is empty after trimming returns an
\* error and creates no user, whatever the password: no key of the store is
\* blank or carries surrounding white space, and a RegisterUser call for a
\* blank username ends with the empty-username error and the store unchanged.
C14_BlankUsernameRejected ==
    /\ [](\A n \in Registered :
              ~Blank(n) /\ n[1] \notin WhiteSpace /\ n[Len(n)] \notin WhiteSpace)
    /\ [][ (lastOp'.op = "RegisterUser" /\ Blank(lastOp'.name))
           => (lastOp'.result = "errEmptyUsername" /\ users' = users) ]_vars

\* a blank username has just been refused although users can be registered
C14_Witness ==
    /\ lastOp.op = "RegisterUser"
    /\ lastOp.name = <<>>
    /\ lastOp.result = "errEmptyUsername"
    /\ Registered # {}

(***************************************************************************)
(* The two-factor program (src/unnamed/part_001, lines 1-521).             *)
(*                                                                         *)
(* crypto/sha256, as generateTOTPCode uses it.  A 32-bit word is the pair  *)
(* <<high 16 bits, low 16 bits>>: the checker's integers are narrower than *)
(* 2^32.  The messages hashed are shorter than 56 bytes, so the digest is  *)
(* one application of the compression function to one padded block.        *)
(***************************************************************************)
Half == 2^16

RotR(w, n) ==
    LET a == IF n >= 16 THEN w[2] ELSE w[1]
        b == IF n >= 16 THEN w[1] ELSE w[2]
        m == 2^(n % 16)
        r == Half \div m
    IN  << (a \div m) + (b % m) * r, (b \div m) + (a % m) * r >>

ShR(w, n) ==
    LET m == 2^n
    IN  << w[1] \div m, (w[2] \div m) + (w[1] % m) * (Half \div m) >>

\* bitwise a XOR b XOR c of n-bit numbers
RECURSIVE Xor3Bits(_, _, _, _)
Xor3Bits(a, b, c, n) ==
    IF n = 0 THEN 0
    ELSE ((a + b + c) % 2) + 2 * Xor3Bits(a \div 2, b \div 2, c \div 2, n - 1)

Xor3(a, b, c) == << Xor3Bits(a[1], b[1], c[1], 16), Xor3Bits(a[2], b[2], c[2], 16) >>

\* bitwise (e AND f) XOR (NOT e AND g)
RECURSIVE ChBits(_, _, _, _)
ChBits(e, f, g, n) ==
    IF n = 0 THEN 0
    ELSE (IF e % 2 = 1 THEN f % 2 ELSE g % 2)
         + 2 * ChBits(e \div 2, f \div 2, g \div 2, n - 1)

Ch(e, f, g) == << ChBits(e[1], f[1], g[1], 16), ChBits(e[2], f[2], g[2], 16) >>

\* bitwise majority of a, b, c
RECURSIVE MajBits(_, _, _, _)
MajBits(a, b, c, n) ==
    IF n = 0 THEN 0
    ELSE (IF (a % 2) + (b % 2) + (c % 2) >= 2 THEN 1 ELSE 0)
         + 2 * MajBits(a \div 2, b \div 2, c \div 2, n - 1)

Maj(a, b, c) == << MajBits(a[1], b[1], c[1], 16), MajBits(a[2], b[2], c[2], 16) >>

RECURSIVE SumHalf(_, _)
SumHalf(ws, i) == IF ws = << >> THEN 0 ELSE Head(ws)[i] + SumHalf(Tail(ws), i)

\* the sum of the words ws modulo 2^32
Add(ws) ==
    LET lo == SumHalf(ws, 2)
    IN  << (SumHalf(ws, 1) + lo \div Half) % Half, lo % Half >>

BigSigma0(w) == Xor3(RotR(w, 2), RotR(w, 13), RotR(w, 22))
BigSigma1(w) == Xor3(RotR(w, 6), RotR(w, 11), RotR(w, 25))
SmallSigma0(w) == Xor3(RotR(w, 7), RotR(w, 18), ShR(w, 3))
SmallSigma1(w) == Xor3(RotR(w, 17), RotR(w, 19), ShR(w, 10))

\* the round constants
K256 ==
    <<
       <<17034, 12184>>, <<28983, 17553>>, <<46528, 64463>>, <<59829, 56229>>,
       <<14678, 49755>>, <<23025, 4593>>, <<37439, 33444>>, <<43804, 24277>>,
       <<55303, 43672>>, <<4739, 23297>>, <<9265, 34238>>, <<21772, 32195>>,
       <<29374, 23924>>, <<32990, 45566>>, <<39900, 1703>>, <<49563, 61812>>,
       <<58523, 27073>>, <<61374, 18310>>, <<4033, 40390>>, <<9228, 41420>>,
       <<11753, 11375>>, <<19060, 33962>>, <<23728, 43484>>, <<30457, 35034>>,
       <<38974, 20818>>, <<43057, 50797>>, <<45059, 10184>>, <<48985, 32711>>,
       <<50912, 3059>>, <<54695, 37191>>, <<1738, 25425>>, <<5161, 10599>>,
       <<10167, 2693>>, <<11803, 8504>>, <<19756, 28156>>, <<21304, 3347>>,
       <<25866, 29524>>, <<30314, 2747>>, <<33218, 51502>>, <<37490, 11397>>,
       <<41663, 59553>>, <<43034, 26187>>, <<49739, 35696>>, <<51052, 20899>>,
       <<53650, 59417>>, <<54937, 1572>>, <<62478, 13701>>, <<4202, 41072>>,
       <<6564, 49430>>, <<7735, 27656>>, <<10056, 30540>>, <<13488, 48309>>,
       <<14620, 3251>>, <<20184, 43594>>, <<23452, 51791>>, <<26670, 28659>>,
       <<29839, 33518>>, <<30885, 25455>>, <<33992, 30740>>, <<36039, 520>>,
       <<37054, 65530>>, <<42064, 27883>>, <<48889, 41975>>, <<50801, 30962>> >>

\* the initial hash value
H256 ==
    <<
       <<27145, 58983>>, <<47975, 44677>>, <<15470, 62322>>, <<42319, 62778>>,
       <<20750, 21119>>, <<39685, 26764>>, <<8067, 55723>>, <<23520, 52505>> >>

\* the padded block of a message of at most 55 bytes: the message, the byte
\* 0x80, zeros, the length in bits as a 64-bit big-endian number
Pad(msg) ==
    msg \o <<128>> \o [i \in 1..(55 - Len(msg)) |-> 0]
        \o <<0, 0, 0, 0, 0, 0, (8 * Len(msg)) \div 256, (8 * Len(msg)) % 256>>

\* the 16 big-endian words of a block
BlockWords(block) ==
    [i \in 1..16 |-> << block[4*i - 3] * 256 + block[4*i - 2],
                        block[4*i - 1] * 256 + block[4*i] >>]

\* the next word of the message schedule ws
NextWord(ws) ==
    Add(<< SmallSigma1(ws[Len(ws) - 1]), ws[Len(ws) - 6],
           SmallSigma0(ws[Len(ws) - 14]), ws[Len(ws) - 15] >>)

\* ws extended by k further words of the message schedule; the CHOOSE over a
\* one-element set yields that element: it has each half computed before
\* the other half starts from it
RECURSIVE Schedule(_, _)
Schedule(ws, k) ==
    IF k = 1 THEN Append(ws, NextWord(ws))
    ELSE CHOOSE r \in { Schedule(h, k - k \div 2) : h \in { Schedule(ws, k \div 2) } } : TRUE

\* one round on the working variables s = <<a, b, c, d, e, f, g, h>>
Round(s, k, w) ==
    CHOOSE r \in
        { << Add(<<t1, t2>>), s[1], s[2], s[3], Add(<<s[4], t1>>), s[5], s[6], s[7] >> :
             t1 \in { Add(<< s[8], BigSigma1(s[5]), Ch(s[5], s[6], s[7]), k, w >>) },
             t2 \in { Add(<< BigSigma0(s[1]), Maj(s[1], s[2], s[3]) >>) } } : TRUE

\* rounds lo..hi on the working variables s
RECURSIVE Rounds(_, _, _, _)
Rounds(s, ws, lo, hi) ==
    IF lo = hi THEN Round(s, K256[lo], ws[lo])
    ELSE CHOOSE r \in { Rounds(h, ws, (lo + hi) \div 2 + 1, hi) :
                            h \in { Rounds(s, ws, lo, (lo + hi) \div 2) } } : TRUE

\* sha256.New(); Write(msg); Sum(nil): the eight words of the digest
Sha256(msg) ==
    LET s == Rounds(H256, Schedule(BlockWords(Pad(msg)), 48), 1, 64)
    IN  [i \in 1..8 |-> Add(<< H256[i], s[i] >>)]

(***************************************************************************)
(* Strings and numbers of the two-factor program.  A string is a sequence  *)
(* of one-character strings; []byte(s) is the sequence of its ASCII codes. *)
(***************************************************************************)
DecimalDigits == <<"0","1","2","3","4","5","6","7","8","9">>

HexDigits == DecimalDigits \o <<"a","b","c","d","e","f">>

Range(f) == { f[i] : i \in DOMAIN f }

IndexOf(seq, ch) == CHOOSE i \in 1..Len(seq) : seq[i] = ch

\* []byte(str), for the strings the program hashes: decimal and lower-case
\* hexadecimal digits and the minus sign
Bytes(str) ==
    [i \in 1..Len(str) |->
        IF str[i] = "-" THEN 45
        ELSE IF str[i] \in Range(DecimalDigits)
             THEN 47 + IndexOf(DecimalDigits, str[i])
             ELSE 86 + IndexOf(HexDigits, str[i])]

\* Go's integer division truncates toward zero
Quot(a, b) == IF a >= 0 THEN a \div b ELSE -((-a) \div b)

\* fmt.Sprintf("%d", n)
RECURSIVE SprintfD(_)
SprintfD(n) ==
    IF n < 0 THEN <<"-">> \o SprintfD(-n)
    ELSE IF n < 10 THEN <<DecimalDigits[n + 1]>>
    ELSE SprintfD(n \div 10) \o <<DecimalDigits[(n % 10) + 1]>>

ZeroPad(str, width) == [i \in 1..(width - Len(str)) |-> "0"] \o str

\* fmt.Sprintf("%06d", n): at least six characters, the sign included,
\* zeros between the sign and the digits
Sprintf06D(n) ==
    IF n < 0 THEN <<"-">> \o ZeroPad(SprintfD(-n), 5) ELSE ZeroPad(SprintfD(n), 6)

\* fmt.Sprintf("%x", bytes): two lower-case hexadecimal digits per byte
SprintfX(bytes) ==
    [i \in 1..(2 * Len(bytes)) |->
        IF i % 2 = 1 THEN HexDigits[(bytes[(i + 1) \div 2] \div 16) + 1]
                     ELSE HexDigits[(bytes[i \div 2] % 16) + 1]]

(***************************************************************************)
(* generateTOTPSecret: 16 bytes from crypto/rand, printed in hexadecimal.  *)
(* The model draws the bytes from RandomSecretBytes.                       *)
(***************************************************************************)
RandomSecretBytes ==
    { <<213, 177, 213, 127, 199, 73, 43, 42, 202, 245, 249, 233, 141, 178, 202, 134>>,
      <<100, 21, 179, 46, 33, 215, 78, 189, 166, 168, 177, 5, 84, 180, 97, 235>> }

generateTOTPSecret(bytes) == SprintfX(bytes)

Secrets == { generateTOTPSecret(bytes) : bytes \in RandomSecretBytes }

(***************************************************************************)
(* Instants, in Unix seconds.  Epoch is 2025-11-02T00:00:00Z, the start of *)
(* a 30-second window.                                                     *)
(***************************************************************************)
Epoch == 58734720 * TimeStep

\* the instants time.Now() yields: the first and the last second of the
\* windows 0..MaxWindow after Epoch
TotpInstants == { Epoch + TimeStep * k + r : k \in 0..MaxWindow, r \in {0, TimeStep - 1} }

\* the instants an authenticator derives codes at: up to two steps away
\* from the verifier's clock
DeriveInstants == { t + TimeStep * k : t \in TotpInstants, k \in -2..2 }

(***************************************************************************)
(* generateTOTPCode.                                                       *)
(***************************************************************************)
\* timestamp.Unix() / 30
timeCounter_RoundUp(timestamp) == Quot(timestamp + TimeStep - 1, TimeStep)

timeCounter(timestamp) == Quot(timestamp, TimeStep)

\* what the hasher is fed: []byte(secret), then the decimal text of the counter
HashInput(secret, counter) == Bytes(secret) \o Bytes(SprintfD(counter))

\* the digests of the inputs the model hashes, computed once
DigestTable ==
    [msg \in { HashInput(secret, c) :
                 secret \in Secrets,
                 c \in { timeCounter(t) + k : t \in DeriveInstants, k \in -1..1 } }
        |-> Sha256(msg)]

Digest(msg) == IF msg \in DOMAIN DigestTable THEN DigestTable[msg] ELSE Sha256(msg)

\* hash[0], hash[1], hash[2], hash[3]
FirstBytes(hash) ==
    << hash[1][1] \div 256, hash[1][1] % 256, hash[1][2] \div 256, hash[1][2] % 256 >>

\* 2^32 modulo m
Wrap32(m) == (((Half * 256) % m) * 256) % m

\* The loop `code = (code << 8) | int(hash[i])` over four bytes, followed by
\* `code % m`.  With a 64-bit int the loop leaves the unsigned big-endian
\* value u of the bytes and the remainder is u mod m.  With a 32-bit int the
\* same loop overflows into the sign bit when hash[0] >= 0x80: it leaves
\* u - 2^32, and Go's % keeps the sign of the dividend.  u itself does not fit
\* the checker's integers, so the remainder is computed byte by byte.
RECURSIVE UnsignedMod(_, _)
UnsignedMod(bytes, m) ==
    IF bytes = << >> THEN 0
    ELSE (UnsignedMod(SubSeq(bytes, 1, Len(bytes) - 1), m) * 256 + bytes[Len(bytes)]) % m

CodeValue(bytes, bits) ==
    IF bits = 32 /\ bytes[1] >= 128
    THEN -((Wrap32(CodeModulus) - UnsignedMod(bytes, CodeModulus)) % CodeModulus)
    ELSE UnsignedMod(bytes, CodeModulus)

generateTOTPCode(secret, timestamp, bits) ==
    Sprintf06D(CodeValue(FirstBytes(Digest(HashInput(secret, timeCounter(timestamp)))), bits))

\* generateTOTPCode on the secrets and instants of the model, computed once
CodeTable ==
    [secret \in Secrets, timestamp \in DeriveInstants, bits \in {32, 64}
        |-> generateTOTPCode(secret, timestamp, bits)]

\* the value of generateTOTPCode(secret, timestamp)
CodeAt(secret, timestamp, bits) ==
    IF secret \in Secrets /\ timestamp \in DeriveInstants /\ bits \in {32, 64}
    THEN CodeTable[secret, timestamp, bits]
    ELSE generateTOTPCode(secret, timestamp, bits)

(***************************************************************************)
(* verifyTOTPCode, with currentTime the instant time.Now() returned.       *)
(***************************************************************************)
verifyTOTPCode_NoLookahead(secret, inputCode, currentTime, bits) ==
    \E offset \in -1..0 :
        inputCode = CodeAt(secret, currentTime + offset * TimeStep, bits)

verifyTOTPCode(secret, inputCode, currentTime, bits) ==
    \E offset \in -1..1 :
        inputCode = CodeAt(secret, currentTime + offset * TimeStep, bits)

(***************************************************************************)
(* The code derivation on its own: an authenticator derives the code of a  *)
(* secret at an instant (as demonstrate2FA does), the program verifies the *)
(* code last derived against the same secret at its own clock.             *)
(***************************************************************************)
IdleUserManager ==
    /\ users = << >>
    /\ now = 1
    /\ lastOp = Call("none", <<>>, "none")
    /\ streak = [n \in {TrimSpace(u) : u \in UsernameInputs} |-> NoStreak]
    /\ IdleRace

InitTOTP ==
    /\ IdleUserManager
    /\ IdleGenerator
    /\ totp = [op |-> "none"]
    /\ intBits \in {32, 64}
    /\ store = << >>
    /\ clock = 0
    /\ stdin = "open"
    /\ last2FA = [op |-> "none"]

\* the derivation before this one, if the last evaluation was a derivation
PriorDerivation ==
    IF totp.op = "generateTOTPCode"
    THEN << [secret |-> totp.secret, at |-> totp.at, code |-> totp.code] >>
    ELSE << >>

DeriveCode(secret, timestamp) ==
    /\ totp' = [op     |-> "generateTOTPCode",
                secret |-> secret,
                at     |-> timestamp,
                code   |-> CodeAt(secret, timestamp, intBits),
                prior  |-> PriorDerivation]
    /\ UNCHANGED <<intBits, store, clock, stdin, last2FA>>

VerifyCode(currentTime) ==
    /\ totp.op = "generateTOTPCode"
    /\ totp' = [op     |-> "verifyTOTPCode",
                secret |-> totp.secret,
                at     |-> totp.at,
                code   |-> totp.code,
                t      |-> currentTime,
                ok     |-> verifyTOTPCode(totp.secret, totp.code, currentTime, intBits)]
    /\ UNCHANGED <<intBits, store, clock, stdin, last2FA>>

NextTOTP ==
    \/ /\ \E secret \in Secrets, timestamp \in DeriveInstants : DeriveCode(secret, timestamp)
       /\ UNCHANGED <<vars, varsRace, generated>>
    \/ /\ \E currentTime \in TotpInstants : VerifyCode(currentTime)
       /\ UNCHANGED <<vars, varsRace, generated>>

SpecTOTP == InitTOTP /\ [][NextTOTP]_<<vars, vars2FA, varsRace, generated>>

(***************************************************************************)
(* Properties of the code derivation (under SpecTOTP).                     *)
(***************************************************************************)
\* how far the instant the verified code was derived at lies from the
\* verifier's clock
Skew == totp.at - totp.t

\* C15 as stated: verifyTOTPCode at instant t accepts the code
\* generateTOTPCode derives for the same secret at t-30s, at t and at t+30s,
\* and rejects the code derived at t-60s or at t+60s.  (Stated for the build
\* with a 64-bit int: the width of int plays no part in it.)
C15_AsStated ==
    (totp.op = "verifyTOTPCode" /\ intBits = 64) =>
        /\ Skew \in {-TimeStep, 0, TimeStep} => totp.ok
        /\ Skew \in {-2 * TimeStep, 2 * TimeStep} => ~totp.ok

\* the three codes verifyTOTPCode compares the input with at instant t
WindowCodes(secret, t) ==
    { CodeAt(secret, t + offset * TimeStep, intBits) : offset \in -1..1 }

\* C15 (amended): verifyTOTPCode at instant t accepts the code derived for
\* the same secret at t-30s, at t and at t+30s; it rejects the code derived
\* at t-60s or at t+60s unless that code equals one of those three codes.
C15_SkewWindow ==
    totp.op = "verifyTOTPCode" =>
        /\ Skew \in {-TimeStep, 0, TimeStep} => totp.ok
        /\ ( /\ Skew \in {-2 * TimeStep, 2 * TimeStep}
             /\ totp.code \notin WindowCodes(totp.secret, totp.t) ) => ~totp.ok

\* a code derived 30 seconds ahead of the verifier's clock was accepted, and
\* it is neither the code of the verifier's window nor of the one before
C15_Witness ==
    /\ totp.op = "verifyTOTPCode"
    /\ Skew = TimeStep
    /\ totp.ok
    /\ totp.code # CodeAt(totp.secret, totp.t, intBits)
    /\ totp.code # CodeAt(totp.secret, totp.t - TimeStep, intBits)

\* floor(unixSeconds / 30)
Window(t) == t \div TimeStep

\* C16 as stated: generateTOTPCode is a function of (secret,
\* floor(unixSeconds/30)) only: two instants in the same 30-second window give
\* the same code for the same secret, and instants in different windows give
\* different codes.  (Stated for the build with a 64-bit int: the width of int
\* plays no part in it.)
C16_AsStated ==
    ( /\ totp.op = "generateTOTPCode"
      /\ intBits = 64
      /\ totp.prior # << >>
      /\ totp.prior[1].secret = totp.secret ) =>
        (Window(totp.prior[1].at) = Window(totp.at) <=> totp.prior[1].code = totp.code)

\* C16 (amended): generateTOTPCode is a function of (secret,
\* floor(unixSeconds/30)) only: two instants in the same 30-second window give
\* the same code for the same secret.  (Instants in different windows may give
\* the same code.)
C16_SameWindowSameCode ==
    ( /\ totp.op = "generateTOTPCode"
      /\ totp.prior # << >>
      /\ totp.prior[1].secret = totp.secret
      /\ Window(totp.prior[1].at) = Window(totp.at) ) =>
        totp.prior[1].code = totp.code

\* two derivations for one secret at different instants of one window
C16_Witness ==
    /\ totp.op = "generateTOTPCode"
    /\ totp.prior # << >>
    /\ totp.prior[1].secret = totp.secret
    /\ totp.prior[1].at # totp.at
    /\ Window(totp.prior[1].at) = Window(totp.at)
    /\ totp.prior[1].code = totp.code

\* C17: for every secret and instant, generateTOTPCode returns a string of
\* exactly 6 decimal digits, equal to the big-endian unsigned 32-bit value of
\* the first 4 digest bytes modulo 1,000,000, left-padded with zeros.
C17_SixDigits ==
    totp.op = "generateTOTPCode" =>
        /\ Len(totp.code) = 6
        /\ \A i \in 1..Len(totp.code) : totp.code[i] \in Range(DecimalDigits)
        /\ totp.code =
             ZeroPad(SprintfD(UnsignedMod(
                 FirstBytes(Sha256(HashInput(totp.secret, Window(totp.at)))),
                 CodeModulus)), 6)

(***************************************************************************)
(* The two-factor program's store and menu actions.                        *)
(*                                                                         *)
(* bcrypt is opaque, as for the UserManager: the digest records the        *)
(* password it was made from and CompareHashAndPassword compares with it.  *)
(***************************************************************************)
GenerateFromPassword(password, cost) ==
    [alg |-> "bcrypt", cost |-> cost, of |-> password]

CompareHashAndPassword(hashedPassword, password) == hashedPassword.of = password

\* generateBackupCode: charset
charset ==
    <<"A","B","C","D","E","F","G","H","I","J","K","L","M",
      "N","O","P","Q","R","S","T","U","V","W","X","Y","Z",
      "0","1","2","3","4","5","6","7","8","9">>

\* generateBackupCode, with picks the eight numbers rand.Int returned
generateBackupCode(picks) == [i \in 1..BackupCodeLength |-> charset[picks[i] + 1]]

\* generateBackupCodesList, with draws the numbers rand.Int returned for
\* each of the count codes
generateBackupCodesList(count, draws) == [i \in 1..count |-> generateBackupCode(draws[i])]

\* eight picks: seven times 0, then n
PicksEndingIn(n) == [k \in 1..BackupCodeLength |-> IF k = BackupCodeLength THEN n ELSE 0]

\* The outcomes of crypto/rand the model draws backup codes from.  Each code
\* is drawn independently of the others and of every earlier list: a list
\* of distinct codes, a list whose third code repeats its first, and a list
\* whose first code is the last code of the first list.
RandomCodeDraws ==
    { [i \in 1..BackupCodesCount |-> PicksEndingIn(i - 1)],
      [i \in 1..BackupCodesCount |-> PicksEndingIn(IF i = 3 THEN 0 ELSE i - 1)],
      [i \in 1..BackupCodesCount |-> PicksEndingIn(i + 8)] }

\* Console input.
RegisterLoginLines == { <<" ", "a">>, <<" ">> }

LoginLines == { <<"a">>, <<"b">> }

RegisterPasswordLines == { <<"s","e","c","r","e","t"," ">>, <<"1","2","3","4","5">> }

PasswordLines == { <<"s","e","c","r","e","t">>, <<"p","a","s","s","w","d">> }

\* the instants the program's clock shows
ClockInstants == { Epoch + TimeStep * k : k \in 0..MaxClock }

\* what is typed at a code prompt: a code the authenticator shows for the
\* secret at some instant, the code it showed a minute before the program
\* started, a backup code (one of them followed by a blank), or a code that
\* is none of these
CodeLines(secret) ==
    { CodeAt(secret, t, intBits) : t \in ClockInstants }
        \cup { CodeAt(secret, Epoch - 2 * TimeStep, intBits) }
        \cup { generateBackupCode(PicksEndingIn(n)) : n \in {0, 1, 9} }
        \cup { generateBackupCode(PicksEndingIn(1)) \o <<" ">> }
        \cup { <<"0","0","0","0","0","0">> }

\* time.Now(): some instant not before the last one
Later(t) == { t2 \in ClockInstants : t2 >= t }

\* what a menu action did: the action, the trimmed login, how it ended, the
\* code submitted, how verifySecondFactor took it, BackupCodes as
\* verifySecondFactor left them, BackupCodes as a regeneration found them,
\* the trimmed password, the secret the code was verified against and the
\* instant time.Now() returned to verifyTOTPCode
Act(op, name, result) ==
    [op |-> op, name |-> name, result |-> result,
     code |-> << >>, via |-> "none", after |-> << >>, old |-> << >>,
     pw |-> << >>, secret |-> << >>, at |-> ZeroTime]

\* a menu action that read a password
Auth(op, name, password, result) == [Act(op, name, result) EXCEPT !.pw = password]

Init2FA ==
    /\ IdleUserManager
    /\ IdleGenerator
    /\ totp = [op |-> "none"]
    /\ intBits \in {32, 64}
    /\ store = << >>
    /\ clock = Epoch
    /\ stdin = "open"
    /\ last2FA = Act("none", << >>, "none")

\* auth.store.users[username] = user
Put(user) ==
    [n \in DOMAIN store \cup {user.Username} |-> IF n = user.Username THEN user ELSE store[n]]

\* scanner.Scan() returned false: the action returns, and so does main
Eof(op) ==
    /\ stdin' = "closed"
    /\ last2FA' = Act(op, << >>, "eof")
    /\ UNCHANGED <<store, clock>>

(***************************************************************************)
(* registerUser2FA                                                         *)
(***************************************************************************)
\* registerUser2FA without the test for an existing login
registerUser2FA_Overwrite(loginLine, passwordLine) ==
    LET username == TrimSpace(loginLine)
        password == TrimSpace(passwordLine)
        Ends(result) == /\ last2FA' = Act("registerUser2FA", username, result)
                        /\ UNCHANGED <<store, clock, stdin>>
    IN  IF username = << >> THEN Ends("empty login")
        ELSE IF Len(password) < MinPasswordLength THEN Ends("short password")
        ELSE \/ Ends("hash error")
             \/ \E t \in Later(clock) :
                  /\ store' = Put([Username     |-> username,
                                   PasswordHash |-> GenerateFromPassword(password, DefaultCost),
                                   TotpSecret   |-> << >>,
                                   BackupCodes  |-> << >>,
                                   Is2FAEnabled |-> FALSE,
                                   CreatedAt    |-> t,
                                   LastLogin    |-> ZeroTime])
                  /\ clock' = t
                  /\ last2FA' = Act("registerUser2FA", username, "registered")
                  /\ UNCHANGED stdin

registerUser2FA(loginLine, passwordLine) ==
    LET username == TrimSpace(loginLine)
        password == TrimSpace(passwordLine)
        Ends(result) == /\ last2FA' = Act("registerUser2FA", username, result)
                        /\ UNCHANGED <<store, clock, stdin>>
    IN  IF username = << >> THEN Ends("empty login")
        ELSE IF username \in DOMAIN store THEN Ends("exists")
        ELSE IF Len(password) < MinPasswordLength THEN Ends("short password")
        ELSE \/ Ends("hash error")
             \/ \E t \in Later(clock) :
                  /\ store' = Put([Username     |-> username,
                                   PasswordHash |-> GenerateFromPassword(password, DefaultCost),
                                   TotpSecret   |-> << >>,
                                   BackupCodes  |-> << >>,
                                   Is2FAEnabled |-> FALSE,
                                   CreatedAt    |-> t,
                                   LastLogin    |-> ZeroTime])
                  /\ clock' = t
                  /\ last2FA' = Act("registerUser2FA", username, "registered")
                  /\ UNCHANGED stdin

(***************************************************************************)
(* authenticateFirstFactor: Success, Message, RequiresTOTP; User is        *)
(* store[username] when Success.                                           *)
(***************************************************************************)
\* authenticateFirstFactor that never asks for the second factor
authenticateFirstFactor_NoTOTP(username, password) ==
    IF username \notin DOMAIN store
    THEN [Success |-> FALSE, Message |-> "not found", RequiresTOTP |-> FALSE]
    ELSE IF ~CompareHashAndPassword(store[username].PasswordHash, password)
    THEN [Success |-> FALSE, Message |-> "wrong password", RequiresTOTP |-> FALSE]
    ELSE [Success |-> TRUE, Message |-> "ok", RequiresTOTP |-> FALSE]

authenticateFirstFactor(username, password) ==
    IF username \notin DOMAIN store
    THEN [Success |-> FALSE, Message |-> "not found", RequiresTOTP |-> FALSE]
    ELSE IF ~CompareHashAndPassword(store[username].PasswordHash, password)
    THEN [Success |-> FALSE, Message |-> "wrong password", RequiresTOTP |-> FALSE]
    ELSE [Success |-> TRUE, Message |-> "ok", RequiresTOTP |-> store[username].Is2FAEnabled]

(***************************************************************************)
(* verifySecondFactor at instant t: whether the code was taken, how, and   *)
(* the user as the call leaves it.                                         *)
(***************************************************************************)
\* append(codes[:i], codes[i+1:]...)
RemoveAt(codes, i) == SubSeq(codes, 1, i - 1) \o SubSeq(codes, i + 1, Len(codes))

\* the index the range loop stops at
FirstMatch_Last(codes, code) ==
    CHOOSE i \in 1..Len(codes) :
        /\ codes[i] = code
        /\ \A j \in (i + 1)..Len(codes) : codes[j] # code

FirstMatch(codes, code) ==
    CHOOSE i \in 1..Len(codes) :
        /\ codes[i] = code
        /\ \A j \in 1..(i - 1) : codes[j] # code

\* verifySecondFactor without the length test on the code
verifySecondFactor_NoLength(user, code, t, bits) ==
    IF verifyTOTPCode(user.TotpSecret, code, t, bits)
    THEN [ok |-> TRUE, via |-> "totp", user |-> user]
    ELSE IF \E i \in 1..Len(user.BackupCodes) : user.BackupCodes[i] = code
    THEN [ok |-> TRUE, via |-> "backup",
          user |-> [user EXCEPT !.BackupCodes = RemoveAt(@, FirstMatch(@, code))]]
    ELSE [ok |-> FALSE, via |-> "rejected", user |-> user]

\* verifySecondFactor that uses up a backup code on every success
verifySecondFactor_AlwaysConsumes(user, code, t, bits) ==
    IF Len(code) = TotpCodeLength /\ verifyTOTPCode(user.TotpSecret, code, t, bits)
    THEN [ok |-> TRUE, via |-> "totp",
          user |-> [user EXCEPT !.BackupCodes = RemoveAt(@, 1)]]
    ELSE IF \E i \in 1..Len(user.BackupCodes) : user.BackupCodes[i] = code
    THEN [ok |-> TRUE, via |-> "backup",
          user |-> [user EXCEPT !.BackupCodes = RemoveAt(@, FirstMatch(@, code))]]
    ELSE [ok |-> FALSE, via |-> "rejected", user |-> user]

\* verifySecondFactor with || for && in the TOTP test: any code of six
\* characters passes
verifySecondFactor_AnySixChars(user, code, t, bits) ==
    IF Len(code) = TotpCodeLength \/ verifyTOTPCode(user.TotpSecret, code, t, bits)
    THEN [ok |-> TRUE, via |-> "totp", user |-> user]
    ELSE IF \E i \in 1..Len(user.BackupCodes) : user.BackupCodes[i] = code
    THEN [ok |-> TRUE, via |-> "backup",
          user |-> [user EXCEPT !.BackupCodes = RemoveAt(@, FirstMatch(@, code))]]
    ELSE [ok |-> FALSE, via |-> "rejected", user |-> user]

verifySecondFactor(user, code, t, bits) ==
    IF Len(code) = TotpCodeLength /\ verifyTOTPCode(user.TotpSecret, code, t, bits)
    THEN [ok |-> TRUE, via |-> "totp", user |-> user]
    ELSE IF \E i \in 1..Len(user.BackupCodes) : user.BackupCodes[i] = code
    THEN [ok |-> TRUE, via |-> "backup",
          user |-> [user EXCEPT !.BackupCodes = RemoveAt(@, FirstMatch(@, code))]]
    ELSE [ok |-> FALSE, via |-> "rejected", user |-> user]

\* authenticateUser: login and password are read and trimmed
authenticateUser(loginLine, passwordLine) ==
    authenticateFirstFactor(TrimSpace(loginLine), TrimSpace(passwordLine))

\* a menu action returns without touching the store, the input still open
Returns(op, name, password, result) ==
    /\ last2FA' = Auth(op, name, password, result)
    /\ UNCHANGED <<store, clock, stdin>>

\* the input ends at the code prompt of a menu action
EofAtCode(op, name, password) ==
    /\ stdin' = "closed"
    /\ last2FA' = Auth(op, name, password, "eof at code")
    /\ UNCHANGED clock

\* a menu action that verified a code at instant t against secret
Checked(call, code, secret, t) ==
    [call EXCEPT !.code = code, !.secret = secret, !.at = t]

\* a menu action that called verifySecondFactor: how the code was taken and
\* BackupCodes as the call left them
Verified(call, code, v, secret, t) ==
    [Checked(call, code, secret, t) EXCEPT !.via = v.via, !.after = v.user.BackupCodes]

(***************************************************************************)
(* loginUser2FA                                                            *)
(***************************************************************************)
loginUser2FA(loginLine, passwordLine) ==
    LET username == TrimSpace(loginLine)
        password == TrimSpace(passwordLine)
        result   == authenticateFirstFactor(username, password)
        user     == store[username]
        call(r)  == Auth("loginUser2FA", username, password, r)
    IN  IF ~result.Success
        THEN Returns("loginUser2FA", username, password, result.Message)
        ELSE IF ~result.RequiresTOTP
        THEN \E t \in Later(clock) :
                /\ store' = Put([user EXCEPT !.LastLogin = t])
                /\ clock' = t
                /\ last2FA' = call("welcome")
                /\ UNCHANGED stdin
        ELSE \/ EofAtCode("loginUser2FA", username, password) /\ UNCHANGED store
             \/ \E codeLine \in CodeLines(user.TotpSecret), t \in Later(clock) :
                  LET code == TrimSpace(codeLine)
                      v    == verifySecondFactor(user, code, t, intBits)
                  IN  /\ UNCHANGED stdin
                      /\ IF v.ok
                         THEN \E t2 \in Later(t) :
                                /\ store' = Put([v.user EXCEPT !.LastLogin = t2])
                                /\ clock' = t2
                                /\ last2FA' = Verified(call("welcome"), code, v,
                                                       user.TotpSecret, t)
                         ELSE /\ store' = Put(v.user)
                              /\ clock' = t
                              /\ last2FA' = Verified(call("wrong code"), code, v,
                                                     user.TotpSecret, t)

(***************************************************************************)
(* enable2FA                                                               *)
(***************************************************************************)
\* the wrong-code branch that leaves the backup codes in place
DiscardPending_KeepsCodes(user) == [user EXCEPT !.TotpSecret = << >>]

\* the wrong-code branch: the secret and the codes just generated are dropped
DiscardPending(user) == [user EXCEPT !.TotpSecret = << >>, !.BackupCodes = << >>]

enable2FA(loginLine, passwordLine) ==
    LET username == TrimSpace(loginLine)
        password == TrimSpace(passwordLine)
        result   == authenticateUser(loginLine, passwordLine)
        user     == store[username]
        call(r)  == Auth("enable2FA", username, password, r)
    IN  IF ~result.Success
        THEN Returns("enable2FA", username, password, result.Message)
        ELSE IF user.Is2FAEnabled
        THEN Returns("enable2FA", username, password, "already enabled")
        ELSE \E bytes \in RandomSecretBytes, draws \in RandomCodeDraws :
               LET secret  == generateTOTPSecret(bytes)
                   pending == [user EXCEPT
                                 !.TotpSecret = secret,
                                 !.BackupCodes =
                                     generateBackupCodesList(BackupCodesCount, draws)]
               IN  \/ EofAtCode("enable2FA", username, password) /\ store' = Put(pending)
                   \/ \E codeLine \in CodeLines(secret), t \in Later(clock) :
                        LET code == TrimSpace(codeLine) IN
                        /\ clock' = t
                        /\ UNCHANGED stdin
                        /\ IF verifyTOTPCode(secret, code, t, intBits)
                           THEN /\ store' = Put([pending EXCEPT !.Is2FAEnabled = TRUE])
                                /\ last2FA' = Checked(call("enabled"), code, secret, t)
                           ELSE /\ store' = Put(DiscardPending(pending))
                                /\ last2FA' = Checked(call("wrong code"), code, secret, t)

(***************************************************************************)
(* disable2FA                                                              *)
(***************************************************************************)
\* the accepted branch that leaves the backup codes in place
Cleared_KeepsCodes(user) ==
    [user EXCEPT !.Is2FAEnabled = FALSE, !.TotpSecret = << >>]

\* the accepted branch: 2FA off, no secret, no backup codes
Cleared(user) ==
    [user EXCEPT !.Is2FAEnabled = FALSE, !.TotpSecret = << >>, !.BackupCodes = << >>]

disable2FA(loginLine, passwordLine) ==
    LET username == TrimSpace(loginLine)
        password == TrimSpace(passwordLine)
        result   == authenticateUser(loginLine, passwordLine)
        user     == store[username]
        call(r)  == Auth("disable2FA", username, password, r)
    IN  IF ~result.Success
        THEN Returns("disable2FA", username, password, result.Message)
        ELSE IF ~user.Is2FAEnabled
        THEN Returns("disable2FA", username, password, "not enabled")
        ELSE \/ EofAtCode("disable2FA", username, password) /\ UNCHANGED store
             \/ \E codeLine \in CodeLines(user.TotpSecret), t \in Later(clock) :
                  LET code == TrimSpace(codeLine)
                      v    == verifySecondFactor(user, code, t, intBits)
                  IN  /\ clock' = t
                      /\ UNCHANGED stdin
                      /\ IF v.ok
                         THEN /\ store' = Put(Cleared(v.user))
                              /\ last2FA' = Verified(call("disabled"), code, v,
                                                     user.TotpSecret, t)
                         ELSE /\ store' = Put(v.user)
                              /\ last2FA' = Verified(call("wrong code"), code, v,
                                                     user.TotpSecret, t)

(***************************************************************************)
(* generateBackupCodes                                                     *)
(***************************************************************************)
generateBackupCodes(loginLine, passwordLine) ==
    LET username == TrimSpace(loginLine)
        password == TrimSpace(passwordLine)
        result   == authenticateUser(loginLine, passwordLine)
        user     == store[username]
    IN  IF ~result.Success
        THEN Returns("generateBackupCodes", username, password, result.Message)
        ELSE IF ~user.Is2FAEnabled
        THEN Returns("generateBackupCodes", username, password, "not enabled")
        ELSE \E draws \in RandomCodeDraws :
               /\ store' = Put([user EXCEPT !.BackupCodes =
                                    generateBackupCodesList(BackupCodesCount, draws)])
               /\ last2FA' = [Auth("generateBackupCodes", username, password,
                                   "regenerated")
                                EXCEPT !.old = user.BackupCodes]
               /\ UNCHANGED <<clock, stdin>>

(***************************************************************************)
(* showUserInfo and demonstrate2FA print and change nothing.               *)
(***************************************************************************)
showUserInfo(loginLine, passwordLine) ==
    LET result == authenticateUser(loginLine, passwordLine)
    IN  Returns("showUserInfo", TrimSpace(loginLine), TrimSpace(passwordLine),
                IF result.Success THEN "shown" ELSE result.Message)

demonstrate2FA == Returns("demonstrate2FA", << >>, << >>, "shown")

(***************************************************************************)
(* The menu loop of main: any action with any input, until the input ends. *)
(* An input that ends at a login or password prompt leaves the store as    *)
(* the action found it (an empty password matches no account and registers *)
(* none), so one action stands for these ends.                             *)
(***************************************************************************)
MenuActions ==
    {"registerUser2FA", "loginUser2FA", "enable2FA", "disable2FA",
     "generateBackupCodes", "showUserInfo"}

\* the program is running: main has not returned, and nothing else moves
Running == stdin = "open" /\ UNCHANGED <<vars, varsRace, generated, totp, intBits>>

Next2FA ==
    \/ /\ Running
       /\ \E l \in RegisterLoginLines, p \in RegisterPasswordLines : registerUser2FA(l, p)
    \/ /\ Running
       /\ \E l \in LoginLines, p \in PasswordLines : loginUser2FA(l, p)
    \/ /\ Running
       /\ \E l \in LoginLines, p \in PasswordLines : enable2FA(l, p)
    \/ /\ Running
       /\ \E l \in LoginLines, p \in PasswordLines : disable2FA(l, p)
    \/ /\ Running
       /\ \E l \in LoginLines, p \in PasswordLines : generateBackupCodes(l, p)
    \/ /\ Running
       /\ \E l \in LoginLines, p \in PasswordLines : showUserInfo(l, p)
    \/ /\ Running
       /\ demonstrate2FA
    \/ /\ Running
       /\ \E op \in MenuActions : Eof(op)

Spec2FA == Init2FA /\ [][Next2FA]_<<vars, vars2FA, varsRace, generated>>

(***************************************************************************)
(* Properties of the two-factor program (under Spec2FA).                   *)
(***************************************************************************)
\* the menu action r called verifySecondFactor
CalledVerify(r) == r.via \in {"totp", "backup", "rejected"}

\* the action just taken called verifySecondFactor for the same user and
\* with the same code as the action before it
SameCodeAgain ==
    /\ CalledVerify(last2FA')
    /\ last2FA'.name = last2FA.name
    /\ last2FA'.code = last2FA.code

\* C18: a backup code accepted by verifySecondFactor is rejected when the
\* same code is submitted again (with no regeneration in between), and each
\* successful backup-code verification reduces len(BackupCodes) by exactly
\* one.
C18_BackupCodeUsedOnce ==
    [][ /\ (last2FA.via = "backup" /\ SameCodeAgain) => last2FA'.via = "rejected"
        /\ last2FA'.via = "backup" =>
               Len(last2FA'.after) = Len(store[last2FA'.name].BackupCodes) - 1
      ]_vars2FA

\* codes without its element at index i
Without(codes, i) ==
    [k \in 1..(Len(codes) - 1) |-> IF k < i THEN codes[k] ELSE codes[k + 1]]

\* C19: backup-code consumption in verifySecondFactor removes only the first
\* element equal to the submitted code and keeps the remaining codes in their
\* original order; a submission matching no backup code leaves BackupCodes
\* unchanged.  (A login leaves in the store what verifySecondFactor left.)
C19_FirstMatchRemoved ==
    [][ CalledVerify(last2FA') =>
          LET before == store[last2FA'.name].BackupCodes
              after  == last2FA'.after
              code   == last2FA'.code
          IN  /\ last2FA'.via = "backup" =>
                    \E i \in 1..Len(before) :
                        /\ before[i] = code
                        /\ \A j \in 1..(i - 1) : before[j] # code
                        /\ after = Without(before, i)
              /\ (\A i \in 1..Len(before) : before[i] # code) => after = before
              /\ last2FA'.op = "loginUser2FA" =>
                    store'[last2FA'.name].BackupCodes = after
      ]_vars2FA

\* a login consumed a backup code that occurred twice: the later occurrence
\* is still there, behind the code that followed the first
C19_Witness ==
    /\ last2FA.op = "loginUser2FA"
    /\ last2FA.via = "backup"
    /\ Len(store[last2FA.name].BackupCodes) = BackupCodesCount - 1
    /\ store[last2FA.name].BackupCodes[2] = last2FA.code
    /\ store[last2FA.name].BackupCodes[1] # last2FA.code

\* C20: after backup codes are regenerated for a user, BackupCodes is fully
\* replaced (not appended to), and submitting any code issued before the
\* regeneration as the second factor fails.
C20_RegenerationInvalidates ==
    [][ /\ (last2FA'.op = "generateBackupCodes" /\ last2FA'.result = "regenerated") =>
              /\ Len(store'[last2FA'.name].BackupCodes) = BackupCodesCount
              /\ last2FA'.old = store[last2FA'.name].BackupCodes
        /\ ( /\ last2FA.op = "generateBackupCodes"
             /\ last2FA.result = "regenerated"
             /\ CalledVerify(last2FA')
             /\ last2FA'.name = last2FA.name
             /\ \E i \in 1..Len(last2FA.old) : last2FA.old[i] = last2FA'.code )
           => last2FA'.via = "rejected"
      ]_vars2FA

\* the code of the action just taken verifies against secret at the instant
\* the action read the clock
VerifiesAgainst(secret) ==
    verifyTOTPCode(secret, last2FA'.code, last2FA'.at, intBits)

\* the code of the action just taken is a second factor verifySecondFactor
\* takes for user: a 6-character code in the TOTP window, or a backup code
\* the user holds
SecondFactorOf(user) ==
    \/ Len(last2FA'.code) = TotpCodeLength /\ VerifiesAgainst(user.TotpSecret)
    \/ \E i \in 1..Len(user.BackupCodes) : user.BackupCodes[i] = last2FA'.code

\* the lists generateBackupCodesList can return
FreshCodeLists ==
    { generateBackupCodesList(BackupCodesCount, draws) : draws \in RandomCodeDraws }

\* C21: enable2FA on a user with 2FA off: if the submitted confirmation code
\* does not verify against the newly generated secret, the user ends with
\* Is2FAEnabled false, TotpSecret empty and BackupCodes empty; if it
\* verifies, the user ends with Is2FAEnabled true, the new secret stored and
\* 10 unused backup codes.
C21_EnableOutcome ==
    [][ ( /\ last2FA'.op = "enable2FA"
          /\ last2FA'.result \in {"enabled", "wrong code"} ) =>
          LET user == store'[last2FA'.name] IN
          /\ ~store[last2FA'.name].Is2FAEnabled
          /\ last2FA'.secret \in Secrets
          /\ IF VerifiesAgainst(last2FA'.secret)
             THEN /\ user.Is2FAEnabled
                  /\ user.TotpSecret = last2FA'.secret
                  /\ Len(user.BackupCodes) = BackupCodesCount
                  /\ user.BackupCodes \in FreshCodeLists
             ELSE /\ ~user.Is2FAEnabled
                  /\ user.TotpSecret = << >>
                  /\ user.BackupCodes = << >>
      ]_vars2FA

\* 2FA has just been enabled with the code of the current window
C21_Witness ==
    /\ last2FA.op = "enable2FA"
    /\ last2FA.result = "enabled"
    /\ last2FA.code = CodeAt(last2FA.secret, clock, intBits)
    /\ store[last2FA.name].Is2FAEnabled
    /\ store[last2FA.name].TotpSecret = last2FA.secret
    /\ Len(store[last2FA.name].BackupCodes) = BackupCodesCount

\* C22: in every reachable state of the 2FA user store, for every user
\* TotpSecret is the empty string if and only if Is2FAEnabled is false, also
\* when an operation is cut short because console input ends.
C22_SecretIffEnabled ==
    \A n \in DOMAIN store :
        (store[n].TotpSecret = << >>) <=> ~store[n].Is2FAEnabled

\* C23: disable2FA clears TotpSecret, BackupCodes and Is2FAEnabled only when
\* the submitted code is a valid second factor (a TOTP code in the window or
\* a backup code the user holds); with an invalid code Is2FAEnabled,
\* TotpSecret and BackupCodes are all left unchanged.
C23_DisableNeedsSecondFactor ==
    [][ ( /\ last2FA'.op = "disable2FA"
          /\ CalledVerify(last2FA') ) =>
          LET before == store[last2FA'.name]
              after  == store'[last2FA'.name]
              valid  == \/ VerifiesAgainst(before.TotpSecret)
                        \/ \E i \in 1..Len(before.BackupCodes) :
                              before.BackupCodes[i] = last2FA'.code
          IN  /\ before.Is2FAEnabled
              /\ ( \/ ~after.Is2FAEnabled
                   \/ after.TotpSecret # before.TotpSecret
                   \/ after.BackupCodes # before.BackupCodes ) => valid
              /\ ~valid => after = before
              /\ last2FA'.result = "disabled" =>
                    /\ ~after.Is2FAEnabled
                    /\ after.TotpSecret = << >>
                    /\ after.BackupCodes = << >>
      ]_vars2FA

\* 2FA has just been disabled with a backup code
C23_Witness ==
    /\ last2FA.op = "disable2FA"
    /\ last2FA.result = "disabled"
    /\ last2FA.via = "backup"
    /\ ~store[last2FA.name].Is2FAEnabled
    /\ store[last2FA.name].BackupCodes = << >>

\* C24: verifySecondFactor checks TOTP before backup codes: when the
\* submitted code is 6 characters and matches the TOTP window it returns
\* true without modifying BackupCodes (and it returns true by TOTP in no
\* other case); BackupCodes shrinks only when the submission equals a stored
\* backup code and the TOTP check did not accept it.
C24_TotpBeforeBackup ==
    [][ CalledVerify(last2FA') =>
          LET user   == store[last2FA'.name]
              before == user.BackupCodes
              after  == last2FA'.after
              byTotp == /\ Len(last2FA'.code) = TotpCodeLength
                        /\ VerifiesAgainst(user.TotpSecret)
          IN  /\ byTotp => /\ last2FA'.via = "totp"
                           /\ last2FA'.result \in {"welcome", "disabled"}
                           /\ after = before
              /\ last2FA'.via = "totp" => byTotp
              /\ after # before =>
                    /\ Len(after) < Len(before)
                    /\ \E i \in 1..Len(before) : before[i] = last2FA'.code
                    /\ ~byTotp
      ]_vars2FA

\* a login has just been completed with a TOTP code, the ten backup codes
\* untouched
C24_Witness ==
    /\ last2FA.op = "loginUser2FA"
    /\ last2FA.via = "totp"
    /\ last2FA.result = "welcome"
    /\ Len(last2FA.after) = BackupCodesCount
    /\ store[last2FA.name].BackupCodes = last2FA.after

\* the menu actions that call authenticateFirstFactor
FirstFactorActions ==
    {"loginUser2FA", "enable2FA", "disable2FA", "generateBackupCodes", "showUserInfo"}

\* C25: authenticateFirstFactor never modifies any user record: a
\* wrong-password call, after any number of them, leaves every 2FA user
\* unchanged and able to pass with the correct password, and on a correct
\* password it returns success with RequiresTOTP equal to the user's current
\* Is2FAEnabled (a login asks for the code exactly when 2FA is on).
C25_FirstFactorReadOnly ==
    [][ ( /\ last2FA'.op \in FirstFactorActions
          /\ last2FA'.result # "eof" ) =>
          LET name    == last2FA'.name
              correct == /\ name \in DOMAIN store
                         /\ CompareHashAndPassword(store[name].PasswordHash, last2FA'.pw)
          IN  /\ ~correct => /\ store' = store
                             /\ last2FA'.result \in {"not found", "wrong password"}
              /\ correct => last2FA'.result \notin {"not found", "wrong password"}
              /\ (correct /\ last2FA'.op = "loginUser2FA") =>
                    ( (last2FA'.result = "welcome" /\ last2FA'.via = "none")
                        <=> ~store[name].Is2FAEnabled )
      ]_vars2FA

\* a wrong password has just been refused for a user with 2FA on, whose
\* record still has the secret and the ten backup codes
C25_Witness ==
    /\ last2FA.op = "loginUser2FA"
    /\ last2FA.result = "wrong password"
    /\ last2FA.name \in DOMAIN store
    /\ store[last2FA.name].Is2FAEnabled
    /\ store[last2FA.name].TotpSecret \in Secrets
    /\ Len(store[last2FA.name].BackupCodes) = BackupCodesCount

\* C26: per 2FA user the only state transitions are NoAccount ->
\* Registered(2FA off) by registration, off -> on by enable2FA with a
\* verified confirmation code, and on -> off by disable2FA with a verified
\* second factor; enable2FA on a user whose 2FA is already on leaves secret
\* and backup codes unchanged, and no operation returns a user to NoAccount.
C26_Transitions ==
    [][ /\ \A n \in DOMAIN store' \ DOMAIN store :
              /\ last2FA'.op = "registerUser2FA"
              /\ last2FA'.name = n
              /\ ~store'[n].Is2FAEnabled
        /\ \A n \in DOMAIN store :
              /\ n \in DOMAIN store'
              /\ (~store[n].Is2FAEnabled /\ store'[n].Is2FAEnabled) =>
                    /\ last2FA'.op = "enable2FA"
                    /\ last2FA'.name = n
                    /\ VerifiesAgainst(store'[n].TotpSecret)
              /\ (store[n].Is2FAEnabled /\ ~store'[n].Is2FAEnabled) =>
                    /\ last2FA'.op = "disable2FA"
                    /\ last2FA'.name = n
                    /\ SecondFactorOf(store[n])
              /\ ( /\ last2FA'.op = "enable2FA"
                   /\ last2FA'.name = n
                   /\ store[n].Is2FAEnabled ) =>
                    /\ store'[n].Is2FAEnabled
                    /\ store'[n].TotpSecret = store[n].TotpSecret
                    /\ store'[n].BackupCodes = store[n].BackupCodes
      ]_vars2FA

\* enable2FA has just been refused for a user whose 2FA is on
C26_Witness ==
    /\ last2FA.op = "enable2FA"
    /\ last2FA.result = "already enabled"
    /\ store[last2FA.name].Is2FAEnabled
    /\ store[last2FA.name].LastLogin # ZeroTime

\* C30: a login for a user with Is2FAEnabled true completes (LastLogin is
\* updated) only if the password check succeeded and verifySecondFactor then
\* returned true; with a correct password and a wrong second-factor code
\* LastLogin is not updated; for a user with Is2FAEnabled false the correct
\* password alone completes the login.
C30_LoginNeedsBothFactors ==
    [][ ( /\ last2FA'.op = "loginUser2FA"
          /\ last2FA'.name \in DOMAIN store ) =>
          LET before   == store[last2FA'.name]
              after    == store'[last2FA'.name]
              password == CompareHashAndPassword(before.PasswordHash, last2FA'.pw)
              complete == /\ last2FA'.result = "welcome"
                          /\ after.LastLogin = clock'
          IN  /\ after.LastLogin # before.LastLogin => complete
              /\ last2FA'.result = "welcome" => complete
              /\ (before.Is2FAEnabled /\ complete) =>
                    /\ password
                    /\ CalledVerify(last2FA')
                    /\ SecondFactorOf(before)
              /\ ( /\ before.Is2FAEnabled
                   /\ password
                   /\ CalledVerify(last2FA')
                   /\ ~SecondFactorOf(before) ) =>
                    /\ last2FA'.result = "wrong code"
                    /\ after.LastLogin = before.LastLogin
              /\ (~before.Is2FAEnabled /\ password) =>
                    /\ complete
                    /\ ~CalledVerify(last2FA')
      ]_vars2FA

\* a correct password with a stale TOTP code has just been refused: the user
\* has 2FA on and has never logged in
C30_Witness ==
    /\ last2FA.op = "loginUser2FA"
    /\ last2FA.result = "wrong code"
    /\ last2FA.code = CodeAt(last2FA.secret, Epoch - 2 * TimeStep, intBits)
    /\ store[last2FA.name].Is2FAEnabled
    /\ CompareHashAndPassword(store[last2FA.name].PasswordHash, last2FA.pw)
    /\ store[last2FA.name].LastLogin = ZeroTime

(***************************************************************************)
(* AuthenticateUser called from several goroutines with a wrong password   *)
(* for one registered account.  UserStore and User carry no lock, so the   *)
(* statements of the calls interleave: the IsBlocked test, the load and    *)
(* the store of user.FailedAttempts++, the threshold test, the map write   *)
(* of SaveUser and the final IsBlocked test are steps of their own.  The   *)
(* interleavings of these steps are among the outcomes of the data race;   *)
(* the Go runtime may also end the process when two map writes overlap.    *)
(***************************************************************************)
RaceUser == <<"a">>

InitRace ==
    /\ users = [n \in {RaceUser} |-> NewUser(n, PwA, 1)]
    /\ now = 1
    /\ lastOp = Call("none", <<>>, "none")
    /\ streak = [n \in {TrimSpace(u) : u \in UsernameInputs} |-> NoStreak]
    /\ Idle2FA
    /\ IdleRace
    /\ IdleGenerator

\* goroutine g moves to pc, with the counter value it holds
At(g, pc, failed) == goroutines' = [goroutines EXCEPT ![g] = [pc |-> pc, failed |-> failed]]

\* the calls that are past the IsBlocked check and have not returned
InCall == { g \in Goroutines : goroutines[g].pc \in {"load", "store", "test", "save", "return"} }

\* lines 144-158: the lookup, the IsBlocked test and the password test
Enter(g, password) ==
    /\ goroutines[g].pc = "idle"
    /\ wrongCalls + Cardinality(InCall) < MaxRaceCalls
    /\ UserExists(RaceUser)
    /\ ~VerifyPassword(password, users[RaceUser].HashedPassword)
    /\ At(g, IF users[RaceUser].IsBlocked THEN "refused" ELSE "load", 0)
    /\ UNCHANGED <<users, now, lastOp, wrongCalls>>

\* line 154: return AuthUserBlocked
ReturnBlocked(g, password) ==
    /\ goroutines[g].pc = "refused"
    /\ At(g, "idle", 0)
    /\ lastOp' = AuthCall(RaceUser, password, AuthUserBlocked)
    /\ UNCHANGED <<users, now, wrongCalls>>

\* line 167, user.FailedAttempts++: the load
Load(g) ==
    /\ goroutines[g].pc = "load"
    /\ At(g, "store", users[RaceUser].FailedAttempts)
    /\ UNCHANGED <<users, now, lastOp, wrongCalls>>

\* line 167, user.FailedAttempts++: the store
Store(g) ==
    /\ goroutines[g].pc = "store"
    /\ users' = [users EXCEPT ![RaceUser].FailedAttempts = goroutines[g].failed + 1]
    /\ At(g, "test", 0)
    /\ UNCHANGED <<now, lastOp, wrongCalls>>

\* lines 170-173: the threshold test and the block
Test(g) ==
    /\ goroutines[g].pc = "test"
    /\ At(g, "save", 0)
    /\ IF users[RaceUser].FailedAttempts >= MaxAttempts
       THEN \E t \in Instants :
              /\ now' = t
              /\ users' = [users EXCEPT ![RaceUser].IsBlocked = TRUE,
                                        ![RaceUser].BlockedAt = t]
       ELSE UNCHANGED <<users, now>>
    /\ UNCHANGED <<lastOp, wrongCalls>>

\* line 175, SaveUser: the map write of the pointer the map already holds
Save(g) ==
    /\ goroutines[g].pc = "save"
    /\ At(g, "return", 0)
    /\ UNCHANGED <<users, now, lastOp, wrongCalls>>

\* two map writes overlap and the runtime ends the process
\* (fatal error: concurrent map writes)
Fatal ==
    /\ Cardinality({ g \in Goroutines : goroutines[g].pc = "save" }) >= 2
    /\ goroutines' = [g \in Goroutines |-> [pc |-> "dead", failed |-> 0]]
    /\ UNCHANGED <<users, now, lastOp, wrongCalls>>

\* lines 177-181: the result, decided by IsBlocked as it is now
Return(g, password) ==
    /\ goroutines[g].pc = "return"
    /\ At(g, "idle", 0)
    /\ lastOp' = AuthCall(RaceUser, password, FailureResult(users[RaceUser]))
    /\ wrongCalls' = wrongCalls + 1
    /\ UNCHANGED <<users, now>>

NextRace ==
    \/ /\ \E g \in Goroutines : Enter(g, PwB)
       /\ UNCHANGED <<streak, vars2FA, generated>>
    \/ /\ \E g \in Goroutines : ReturnBlocked(g, PwB)
       /\ UNCHANGED <<streak, vars2FA, generated>>
    \/ /\ \E g \in Goroutines : Load(g)
       /\ UNCHANGED <<streak, vars2FA, generated>>
    \/ /\ \E g \in Goroutines : Store(g)
       /\ UNCHANGED <<streak, vars2FA, generated>>
    \/ /\ \E g \in Goroutines : Test(g)
       /\ UNCHANGED <<streak, vars2FA, generated>>
    \/ /\ \E g \in Goroutines : Save(g)
       /\ UNCHANGED <<streak, vars2FA, generated>>
    \/ /\ Fatal
       /\ UNCHANGED <<streak, vars2FA, generated>>
    \/ /\ \E g \in Goroutines : Return(g, PwB)
       /\ UNCHANGED <<streak, vars2FA, generated>>

SpecRace == InitRace /\ [][NextRace]_<<vars, vars2FA, varsRace, generated>>

\* every call has returned
Quiescent == \A g \in Goroutines : goroutines[g].pc = "idle"

\* C27: when AuthenticateUser calls with a wrong password run concurrently
\* against the same non-blocked account, every wrong attempt is counted: once
\* the calls have returned, FailedAttempts is the number of wrong attempts
\* made, and an account that has taken MaxAttempts wrong attempts is blocked.
C27_EveryAttemptCounted ==
    Quiescent =>
        /\ users[RaceUser].FailedAttempts = wrongCalls
        /\ wrongCalls >= MaxAttempts => users[RaceUser].IsBlocked

(***************************************************************************)
(* Further properties of the UserManager (under Spec).                     *)
(***************************************************************************)
\* C28: in every reachable state of the single-factor store, every user has
\* 0 <= FailedAttempts <= MaxAttempts, and IsBlocked is true exactly when
\* FailedAttempts = MaxAttempts.
C28_CounterRange ==
    \A n \in Registered :
        /\ 0 <= users[n].FailedAttempts
        /\ users[n].FailedAttempts <= MaxAttempts
        /\ users[n].IsBlocked <=> users[n].FailedAttempts = MaxAttempts

\* one account is blocked at the threshold while another is one wrong
\* attempt short of it
C28_Witness ==
    \E n, m \in Registered :
        /\ users[n].IsBlocked
        /\ users[n].FailedAttempts = MaxAttempts
        /\ ~users[m].IsBlocked
        /\ users[m].FailedAttempts = MaxAttempts - 1

\* C29: an account becomes blocked only in a wrong-password AuthenticateUser
\* call that is the MaxAttempts-th wrong attempt since the account's most
\* recent registration, AuthSuccess or successful ChangePassword (a new
\* account is not blocked); wrong attempts separated by a successful
\* authentication do not accumulate: the counter of a non-blocked account is
\* the number of wrong attempts since then.
C29_BlockedByStreak ==
    [][ /\ \A n \in DOMAIN users' \ Registered : ~users'[n].IsBlocked
        /\ \A n \in Registered :
              /\ (~users[n].IsBlocked /\ users'[n].IsBlocked) =>
                    /\ lastOp'.op = "AuthenticateUser"
                    /\ lastOp'.name = n
                    /\ ~VerifyPassword(lastOp'.pw, users[n].HashedPassword)
                    /\ Len(streak[n].results) = MaxAttempts - 1
                    /\ Len(streak'[n].results) = MaxAttempts
                    /\ streak'[n].clean
              /\ ~users'[n].IsBlocked =>
                    users'[n].FailedAttempts = Len(streak'[n].results)
      ]_vars

\* an account that had logged in before has just been blocked by its third
\* wrong password since
C29_Witness ==
    /\ lastOp.op = "AuthenticateUser"
    /\ lastOp.name \in Registered
    /\ lastOp.result = AuthUserBlocked
    /\ users[lastOp.name].LastLoginAt # ZeroTime
    /\ users[lastOp.name].BlockedAt >= users[lastOp.name].LastLoginAt
    /\ Len(streak[lastOp.name].results) = MaxAttempts
    /\ streak[lastOp.name].results[1] = AuthInvalidCredentials

C32_TotpNotConsumed ==
    [][ /\ (CalledVerify(last2FA') /\ last2FA'.via = "totp") =>
              /\ last2FA'.after = store[last2FA'.name].BackupCodes
              /\ last2FA'.op = "loginUser2FA" =>
                    store'[last2FA'.name] =
                        [store[last2FA'.name] EXCEPT !.LastLogin = clock']
        /\ ( /\ last2FA.via = "totp"
             /\ last2FA.op = "loginUser2FA"
             /\ SameCodeAgain
             /\ \E k \in -1..1 :
                   last2FA'.code =
                       CodeAt(last2FA.secret,
                              (timeCounter(last2FA'.at) + k) * TimeStep, intBits) ) =>
              /\ last2FA'.via = "totp"
              /\ last2FA'.secret = last2FA.secret
              /\ last2FA'.result \in {"welcome", "disabled"}
      ]_vars2FA

\* a login has just been completed, one window later, with the TOTP code of
\* the window in which the user logged in before
C32_Witness ==
    /\ last2FA.op = "loginUser2FA"
    /\ last2FA.via = "totp"
    /\ last2FA.at = Epoch + TimeStep
    /\ last2FA.code = CodeAt(last2FA.secret, Epoch, intBits)
    /\ last2FA.code # CodeAt(last2FA.secret, Epoch + TimeStep, intBits)
    /\ store[last2FA.name].TotpSecret = last2FA.secret
    /\ store[last2FA.name].LastLogin = Epoch + TimeStep

(***************************************************************************)
(* The password generator.  crypto/rand is a reader the model draws from a *)
(* small set: the k-th number it hands out, and the read at which it       *)
(* fails, if it does.                                                      *)
(***************************************************************************)
MaxLength == 13

\* []rune(charset) of the four character sets
uppercaseRunes ==
    <<"A","B","C","D","E","F","G","H","I","J","K","L","M",
      "N","O","P","Q","R","S","T","U","V","W","X","Y","Z">>

lowercaseRunes ==
    <<"a","b","c","d","e","f","g","h","i","j","k","l","m",
      "n","o","p","q","r","s","t","u","v","w","x","y","z">>

digitRunes == <<"0","1","2","3","4","5","6","7","8","9">>

specialRunes ==
    <<"!","@","#","$","%","^","&","*","(",")","_","+","-","=","[","]",
      "{","}","|",";",":",",",".","<",">","?">>

\* the readers: the k-th read yields mul * k + add, and read number failAt
\* returns an error (0: no read fails)
Readers ==
    { [mul |-> 0, add |-> 0, failAt |-> 0],
      [mul |-> 7, add |-> 3, failAt |-> 0],
      [mul |-> 1, add |-> 0, failAt |-> 1],
      [mul |-> 1, add |-> 0, failAt |-> 7] }

\* rand.Int(rand.Reader, max) at read number k
RandInt(reader, k, max) == (reader.mul * k + reader.add) % max

\* generateCharsFromSet, its reads numbered from first
generateCharsFromSet(charsetRunes, count, reader, first) ==
    [i \in 1..count |->
        charsetRunes[RandInt(reader, first + i - 1, Len(charsetRunes)) + 1]]

\* shuffleRunes from position i (counted from 0) down to 1, its reads
\* numbered from k: runes[i], runes[j] = runes[j], runes[i]
RECURSIVE ShuffleFrom(_, _, _, _)
ShuffleFrom(runes, i, reader, k) ==
    IF i <= 0 THEN runes
    ELSE LET j == RandInt(reader, k, i + 1)
             swapped == [runes EXCEPT ![i + 1] = runes[j + 1], ![j + 1] = runes[i + 1]]
         IN  ShuffleFrom(swapped, i - 1, reader, k + 1)

shuffleRunes(runes, reader, first) == ShuffleFrom(runes, Len(runes) - 1, reader, first)

\* GeneratePassword: the password and the error it returns
GeneratePassword(rules, reader) ==
    LET \* the number of characters drawn for a class
        Mandatory(require, min) == IF require /\ min > 0 THEN min ELSE 0
        minRequired == rules.MinUppercase + rules.MinLowercase
                           + rules.MinDigits + rules.MinSpecial
        nU == Mandatory(rules.RequireUppercase, rules.MinUppercase)
        nL == Mandatory(rules.RequireLowercase, rules.MinLowercase)
        nD == Mandatory(rules.RequireDigits, rules.MinDigits)
        nS == Mandatory(rules.RequireSpecial, rules.MinSpecial)
        required ==
            generateCharsFromSet(uppercaseRunes, nU, reader, 1)
            \o generateCharsFromSet(lowercaseRunes, nL, reader, 1 + nU)
            \o generateCharsFromSet(digitRunes, nD, reader, 1 + nU + nL)
            \o generateCharsFromSet(specialRunes, nS, reader, 1 + nU + nL + nD)
        remainingLength == rules.Length - nU - nL - nD - nS
        allChars ==
            (IF rules.RequireUppercase THEN uppercaseRunes ELSE << >>)
            \o (IF rules.RequireLowercase THEN lowercaseRunes ELSE << >>)
            \o (IF rules.RequireDigits THEN digitRunes ELSE << >>)
            \o (IF rules.RequireSpecial THEN specialRunes ELSE << >>)
        fill == IF remainingLength > 0 THEN remainingLength ELSE 0
        password ==
            required \o generateCharsFromSet(allChars, fill, reader, 1 + Len(required))
        failed(err) == [password |-> << >>, err |-> err]
        \* one of the reads up to read number last returns an error
        Fails(last) == reader.failAt >= 1 /\ reader.failAt <= last
    IN  IF rules.Length < 4 THEN failed("length")
        ELSE IF minRequired > rules.Length THEN failed("minimum")
        ELSE IF Fails(Len(required)) THEN failed("rand")
        ELSE IF remainingLength > 0 /\ allChars = << >> THEN failed("charset")
        ELSE IF Fails(Len(password) + Len(password) - 1) THEN failed("rand")
        ELSE [password |-> shuffleRunes(password, reader, 1 + Len(password)),
              err |-> "nil"]

GenerateSecurePassword(length, reader) ==
    LET rules ==
            [Length |-> IF length < 12 THEN 12 ELSE length,
             RequireUppercase |-> TRUE, RequireLowercase |-> TRUE,
             RequireDigits |-> TRUE, RequireSpecial |-> TRUE,
             MinUppercase |-> 2, MinLowercase |-> 2, MinDigits |-> 2, MinSpecial |-> 2]
    IN  GeneratePassword(rules, reader)

\* the lengths and the class minimums the callers pass
LengthInputs == {3, 4, 12, MaxLength}

RuleInputs ==
    LET MinInputs == {-2, 0, 2, 6}
    IN
    [Length : LengthInputs,
     RequireUppercase : BOOLEAN, RequireLowercase : BOOLEAN,
     RequireDigits : BOOLEAN, RequireSpecial : BOOLEAN,
     MinUppercase : MinInputs, MinLowercase : MinInputs,
     MinDigits : MinInputs, MinSpecial : MinInputs]

\* the arguments of the call to come: rules for GeneratePassword, or a length
\* for GenerateSecurePassword
InitGen ==
    /\ IdleUserManager
    /\ Idle2FA
    /\ \E reader \in Readers :
          \/ \E rules \in RuleInputs :
                generated = [NoGeneration EXCEPT !.rules = rules, !.reader = reader]
          \/ \E length \in LengthInputs \cup {16} :
                generated = [NoGeneration EXCEPT !.length = length, !.reader = reader]

\* a call of GeneratePassword
CallGeneratePassword ==
    /\ generated.op = "none"
    /\ generated.length = 0
    /\ LET r == GeneratePassword(generated.rules, generated.reader)
       IN  generated' = [generated EXCEPT !.op = "GeneratePassword",
                                          !.password = r.password, !.err = r.err]

\* a call of GenerateSecurePassword
CallGenerateSecurePassword ==
    /\ generated.op = "none"
    /\ generated.length # 0
    /\ LET r == GenerateSecurePassword(generated.length, generated.reader)
       IN  generated' = [generated EXCEPT !.op = "GenerateSecurePassword",
                                          !.password = r.password, !.err = r.err]

NextGen ==
    \/ /\ CallGeneratePassword
       /\ UNCHANGED <<vars, vars2FA, varsRace>>
    \/ /\ CallGenerateSecurePassword
       /\ UNCHANGED <<vars, vars2FA, varsRace>>

SpecGen == InitGen /\ [][NextGen]_<<vars, vars2FA, varsRace, generated>>

=============================================================================
